---- MODULE Spec2Model ----
(***************************************************************************)
(* A model of the zotero-mcp data-access layer: the Local backend (queries *)
(* over the Zotero SQLite store), the Remote backend (requests against the *)
(* Zotero Web API v3) and the expiring Cache.                              *)
(*                                                                         *)
(* The library is read-only for the program, so a behaviour is: a library  *)
(* content drawn at Init, then a sequence of backend calls, each recorded  *)
(* in `call` with its outcome in `result`.                                 *)
(*                                                                         *)
(* Conventions: an absent optional argument is its JavaScript falsy value  *)
(* ("" for a string, 0 for a number, {} or <<>> for a list), which is what *)
(* the code's `x || default` and `if (x)` tests read.  An item's itemID    *)
(* and its key are identified (both are unique per row of `items`).        *)
(* Text values are sequences of one-letter strings so that SQL LIKE '%q%'  *)
(* is a real substring test.                                               *)
(***************************************************************************)
EXTENDS Integers, Sequences, FiniteSets, TLC

VARIABLES
    items,              \* table items (+ itemAttachments/itemNotes/itemAnnotations): key -> row
    deletedItems,       \* table deletedItems: set of item keys
    itemTags,           \* tables itemTags/tags: key -> set of tag names
    collectionItems,    \* table collectionItems: key -> set of collection keys
    collections,        \* table collections: collection key -> parent key ("" = none)
    deletedCollections, \* table deletedCollections: set of collection keys
    call,               \* the backend call made last
    result,             \* what that call returned (or the error it raised)
    requests,           \* the HTTP requests that call sent, in order
    ttl,                \* Cache.ttl, in milliseconds
    store,              \* Cache.store: key -> [value, expires]
    now,                \* Date.now(), in milliseconds
    cacheCall,          \* the Cache method called last
    got,                \* what that method returned
    setAt,              \* history: key -> Date.now() at its last set
    setLog,             \* history: the last set call, while the store holds its
                        \*   entry: its key, its value and prevAt, Date.now() at
                        \*   the set of that key before it
    ticks,              \* history: how many times the clock has advanced
    config,             \* ZoteroMCPServer.config, as loadConfig() read it
    globalConfig,       \* the module's globalConfig (getConfig/setConfig/switchMode)
    disk,               \* the data directory and the store file in it
    serverBackend,      \* ZoteroMCPServer.backend
    instances,          \* the backend objects constructed so far, in order
    handles,            \* the store handles opened and not closed
    lookups,            \* the module's FIELD_NAMES, ITEM_TYPES, CREATOR_TYPES
    walk                \* getCollectionItems(c, true): the sub-collection walk in progress

libVars   == <<items, deletedItems, itemTags, collectionItems, collections, deletedCollections>>
callVars  == <<call, result, requests>>
cacheVars == <<ttl, store, now, cacheCall, got, setAt, setLog, ticks>>
serverVars == <<config, globalConfig, disk, serverBackend, instances, handles, lookups>>
vars      == <<items, deletedItems, itemTags, collectionItems, collections,
               deletedCollections, call, result, requests,
               ttl, store, now, cacheCall, got, setAt, setLog, ticks,
               config, globalConfig, disk, serverBackend, instances, handles, lookups,
               walk>>

-----------------------------------------------------------------------------
(* Bounds *)

MaxTrashed   == 1   \* at most this many rows in deletedItems
MaxStart     == 2   \* filters.start ranges over 0..MaxStart
MaxLimit     == 2   \* filters.limit ranges over 0..MaxLimit (0 = not given)
MaxTagList   == 2   \* filters.tags holds at most this many tags
DefaultLimit == 2   \* config.defaultLimit (ZOTERO_DEFAULT_LIMIT), scaled to the library
ConfigMaxLimit == 2 \* config.maxLimit, scaled to the library
MaxDays      == 1   \* getRecentItems is called with days in 0..MaxDays
MaxTtlSeconds == 1  \* the Cache is constructed with ttlSeconds in 1..MaxTtlSeconds
MaxTicks     == 3   \* the clock advances at most this many times

-----------------------------------------------------------------------------
(* The library the calls are made against *)

NoKey == ""

\* The item types that are child objects, never library items.
ChildTypes == {"attachment", "note", "annotation"}

Row(type, parent, ctype, version, added, modified, title, last) ==
    [itemType |-> type, parentItem |-> parent, contentType |-> ctype,
     version |-> version, dateAdded |-> added, dateModified |-> modified,
     title |-> title, lastName |-> last,
     abstractNote |-> <<>>, url |-> <<>>, firstName |-> <<>>]

\* Three regular items; R1 and R2 each own a PDF with one annotation; R1
\* also owns a note and a non-PDF attachment; SN is a standalone note.  R1's
\* creator has a first name, R2 has a url and R3 an abstract; an empty value
\* is a field the item has no itemData row for.
BaseItems ==
    [ R1  |-> [Row("journalArticle", NoKey, "", 1, 1, 9, <<"a", "b">>, <<"x">>)
                  EXCEPT !.firstName = <<"f">>],
      R2  |-> [Row("book",           NoKey, "", 2, 2, 8, <<"b", "c">>, <<"y">>)
                  EXCEPT !.url = <<"u">>],
      R3  |-> [Row("journalArticle", NoKey, "", 3, 3, 7, <<"c">>,      <<"a">>)
                  EXCEPT !.abstractNote = <<"s">>],
      A1  |-> Row("attachment", "R1", "application/pdf", 4, 4, 6, <<"a">>, <<>>),
      A2  |-> Row("attachment", "R2", "application/pdf", 5, 5, 5, <<"b">>, <<>>),
      H1  |-> Row("attachment", "R1", "text/html",       6, 6, 4, <<"c">>, <<>>),
      N1  |-> Row("note",       "R1", "", 7, 7, 3, <<>>, <<>>),
      AN1 |-> Row("annotation", "A1", "", 8, 8, 2, <<>>, <<>>),
      AN2 |-> Row("annotation", "A2", "", 9, 9, 1, <<>>, <<>>),
      SN  |-> Row("note",       NoKey, "", 10, 10, 10, <<>>, <<>>) ]

ItemKeys == DOMAIN BaseItems

Tags == {"ta", "tb", "tz"}      \* no item of any library carries "tz"

BaseTags ==
    [k \in ItemKeys |->
        CASE k = "R1" -> {"ta", "tb"}
          [] k = "R2" -> {"ta"}
          [] k = "A1" -> {"ta", "tb"}
          [] k = "SN" -> {"tb"}
          [] OTHER    -> {}]

\* C1 > C2 > C3 is a chain of sub-collections; C4 has no sub-collection.
BaseCollections == [C1 |-> "", C2 |-> "C1", C3 |-> "C2", C4 |-> ""]

CollKeys == DOMAIN BaseCollections

BaseCollectionItems ==
    [k \in ItemKeys |->
        CASE k = "R1" -> {"C1"}
          [] k = "R2" -> {"C2", "C4"}
          [] k = "R3" -> {"C3"}
          [] OTHER    -> {}]

\* Table fulltextItems: the indexed content of the attachments.
FulltextContent ==
    [ A1 |-> <<"a", "b">>,
      H1 |-> <<"a">>,
      A2 |-> <<"b">> ]

\* A tag name as its characters, and its place in the collation order.
TagText(t) ==
    CASE t = "ta" -> <<"t", "a">>
      [] t = "tb" -> <<"t", "b">>
      [] t = "tz" -> <<"t", "z">>
TagRank(t) ==
    CASE t = "ta" -> 1
      [] t = "tb" -> 2
      [] t = "tz" -> 3

\* The libraries of the model: the base library with up to MaxTrashed items
\* in the trash and with the tags of one regular item varied.
InitLibrary ==
    /\ items = BaseItems
    /\ deletedItems \in {S \in SUBSET ItemKeys : Cardinality(S) <= MaxTrashed}
    /\ itemTags \in {[BaseTags EXCEPT !["R3"] = T] : T \in SUBSET {"ta", "tb"}}
    /\ collectionItems = BaseCollectionItems
    /\ collections = BaseCollections
    /\ deletedCollections = {}

-----------------------------------------------------------------------------
(* Helpers shared by the two backends *)

Min(a, b) == IF a < b THEN a ELSE b

\* q occurs in v (SQL: v LIKE '%q%').
Contains(v, q) ==
    \E i \in 1..(Len(v) - Len(q) + 1) : SubSeq(v, i, i + Len(q) - 1) = q

\* The keys of S ordered by a date column (ORDER BY i.<field> <direction>).
RECURSIVE OrderBy(_, _, _)
OrderBy(S, field, direction) ==
    IF S = {} THEN <<>>
    ELSE LET first == CHOOSE k \in S : \A j \in S :
                          IF direction = "asc"
                          THEN items[k][field] <= items[j][field]
                          ELSE items[k][field] >= items[j][field]
         IN <<first>> \o OrderBy(S \ {first}, field, direction)

\* LIMIT limit OFFSET offset (SQLite: a negative limit is no limit, a
\* negative offset is 0).
LimitOffset(rows, limit, offset) ==
    LET from == IF offset < 0 THEN 0 ELSE offset
        upto == IF limit < 0 THEN Len(rows) ELSE Min(from + limit, Len(rows))
    IN SubSeq(rows, from + 1, upto)

Keys(seq) == {seq[i].key : i \in 1..Len(seq)}

\* A set of keys as the rows of a query without ORDER BY.
RECURSIVE RowsOf(_)
RowsOf(S) ==
    IF S = {} THEN <<>>
    ELSE LET first == CHOOSE c \in S : TRUE
         IN <<first>> \o RowsOf(S \ {first})

NoVersion == -1     \* filters.sinceVersion === undefined

MsPerSecond == 1000
DayMs == 24 * 60 * 60 * MsPerSecond

\* cutoff.setDate(cutoff.getDate() - days), as an instant in milliseconds
\* (a day of the local calendar taken as 24 hours).
Cutoff(t, days) == t - days * DayMs

\* column >= cutoffStr in SQL, where the column holds 'YYYY-MM-DD HH:MM:SS'
\* and cutoffStr is 'YYYY-MM-DD HH:MM:SS.mmm': the strings compare as their
\* seconds do, and on equal seconds the shorter one, the column, is the lesser.
DateNotBeforeStr(date, cutoff) ==
    (date \div MsPerSecond) > (cutoff \div MsPerSecond)

NoFilters ==
    [itemType |-> <<>>, tags |-> <<>>, collectionKey |-> "",
     sinceVersion |-> NoVersion, sort |-> "", direction |-> "",
     limit |-> 0, start |-> 0]

-----------------------------------------------------------------------------
(* Local backend *)

\* rowToItem, then loadItemFields/loadItemCreators/loadItemTags/loadItemCollections.
LocalItem(k) ==
    [key |-> k, itemType |-> items[k].itemType, version |-> items[k].version,
     title |-> items[k].title, tags |-> itemTags[k],
     collections |-> collectionItems[k]]

\* The fields the rows of itemData give a value for.
ItemDataFields == {"title", "abstractNote", "url"}

\* The text search of searchItems: some itemData value of the item is LIKE
\* '%query%', or the first or last name of one of its creators is.
LocalTextMatch(k, query) ==
    \/ \E f \in ItemDataFields : Contains(items[k][f], query)
    \/ Contains(items[k].firstName, query)
    \/ Contains(items[k].lastName, query)

\* The WHERE clause as it would be with the tags combined by OR.
LocalMatchingAnyTag(query, filters) ==
    {k \in DOMAIN items :
        /\ k \notin deletedItems
        /\ items[k].itemType \notin ChildTypes
        /\ (query # <<>> => LocalTextMatch(k, query))
        /\ (filters.itemType # <<>> =>
               \E n \in 1..Len(filters.itemType) :
                   items[k].itemType = filters.itemType[n])
        /\ (Len(filters.tags) > 0 =>
               \E n \in 1..Len(filters.tags) : filters.tags[n] \in itemTags[k])
        /\ (filters.collectionKey # "" =>
               filters.collectionKey \in collectionItems[k])}

\* The WHERE clause of searchItems: the rows the query and filters select.
LocalMatching(query, filters) ==
    {k \in DOMAIN items :
        /\ k \notin deletedItems
        /\ items[k].itemType \notin ChildTypes
        /\ (query # <<>> => LocalTextMatch(k, query))
        /\ (filters.itemType # <<>> =>
               \E n \in 1..Len(filters.itemType) :
                   items[k].itemType = filters.itemType[n])
        /\ (Len(filters.tags) > 0 =>
               \A n \in 1..Len(filters.tags) : filters.tags[n] \in itemTags[k])
        /\ (filters.collectionKey # "" =>
               filters.collectionKey \in collectionItems[k])}

\* searchItems as it would be if the cursor advanced by the page size asked
\* for instead of by the number of rows read.
LocalSearchItemsByLimit(query, filters) ==
    LET limit  == IF filters.limit # 0 THEN filters.limit ELSE DefaultLimit
        offset == filters.start
        matching == LocalMatching(query, filters)
        rows == LimitOffset(OrderBy(matching, "dateModified", "desc"), limit, offset)
        found == [n \in 1..Len(rows) |-> LocalItem(rows[n])]
    IN [kind |-> "ok", items |-> found, totalResults |-> Cardinality(matching),
        hasMore |-> offset + limit < Cardinality(matching),
        nextStart |-> offset + limit]

LocalSearchItems(query, filters) ==
    LET limit  == IF filters.limit # 0 THEN filters.limit ELSE DefaultLimit
        offset == filters.start
        sortField == IF filters.sort # "" THEN filters.sort ELSE "dateModified"
        direction == IF filters.direction # "" THEN filters.direction ELSE "desc"
        matching == LocalMatching(query, filters)
        ordered == OrderBy(matching,
                           IF sortField = "dateModified" THEN "dateModified"
                                                         ELSE "dateAdded",
                           direction)
        totalResults == Cardinality(matching)
        rows == LimitOffset(ordered, limit, offset)
        found == [n \in 1..Len(rows) |-> LocalItem(rows[n])]
    IN [kind |-> "ok", items |-> found, totalResults |-> totalResults,
        hasMore |-> offset + Len(found) < totalResults,
        nextStart |-> offset + Len(found)]

\* getSubcollections: the keys pushed onto allKeys by the walk below parentKey.
RECURSIVE getSubcollections(_)
getSubcollections(parentKey) ==
    LET subs == RowsOf({c \in DOMAIN collections : collections[c] = parentKey})
        RECURSIVE Visit(_)
        Visit(n) == IF n > Len(subs) THEN <<>>
                    ELSE <<subs[n]>> \o getSubcollections(subs[n]) \o Visit(n + 1)
    IN Visit(1)

LocalGetCollectionItems(collectionKey, recursive, filters) ==
    LET updatedFilters == [filters EXCEPT !.collectionKey = collectionKey]
        allKeys == IF recursive
                   THEN <<collectionKey>> \o getSubcollections(collectionKey)
                   ELSE <<>>
    IN \* allKeys is collected and then not used by the query
       LocalSearchItems(<<>>, updatedFilters)

\* The child rows of one kind under a parent row that are not in the trash
\* (itemAttachments / itemNotes / itemAnnotations joined with items and
\* anti-joined with deletedItems).
LiveChildren(parent, type) ==
    RowsOf({k \in DOMAIN items :
               /\ items[k].itemType = type
               /\ items[k].parentItem = parent
               /\ k \notin deletedItems})

LocalGetItemNotes(key) ==
    IF key \notin DOMAIN items THEN <<>>
    ELSE LET notes == LiveChildren(key, "note")
         IN [n \in 1..Len(notes) |->
                [key |-> notes[n], itemType |-> "note", parentItem |-> key]]

LocalGetItemAttachments(key) ==
    IF key \notin DOMAIN items THEN <<>>
    ELSE LET attachments == LiveChildren(key, "attachment")
         IN [n \in 1..Len(attachments) |->
                [key |-> attachments[n], itemType |-> "attachment",
                 title |-> items[attachments[n]].title,
                 contentType |-> items[attachments[n]].contentType,
                 parentItem |-> key]]

\* The annotation rows read for one attachment of the item.
AnnotationsOf(attachment) ==
    IF attachment.contentType = "application/pdf" /\ attachment.key \in DOMAIN items
    THEN LET rows == LiveChildren(attachment.key, "annotation")
         IN [n \in 1..Len(rows) |->
                [key |-> rows[n], itemType |-> "annotation",
                 parentItem |-> attachment.key]]
    ELSE <<>>

\* getItemAnnotations as it would be if the annotation query were not
\* restricted to the attachment at hand.
LocalGetItemAnnotationsOfAll(key) ==
    LET attachments == LocalGetItemAttachments(key)
        rows == RowsOf({k \in DOMAIN items :
                           items[k].itemType = "annotation" /\ k \notin deletedItems})
    IN IF Len(attachments) = 0 THEN <<>>
       ELSE [n \in 1..Len(rows) |->
                [key |-> rows[n], itemType |-> "annotation",
                 parentItem |-> attachments[1].key]]

LocalGetItemAnnotations(key) ==
    LET attachments == LocalGetItemAttachments(key)
        RECURSIVE Collect(_)
        Collect(n) == IF n > Len(attachments) THEN <<>>
                      ELSE AnnotationsOf(attachments[n]) \o Collect(n + 1)
    IN Collect(1)

LocalGetItem(key, includeChildren) ==
    IF key \notin DOMAIN items \/ key \in deletedItems
    THEN [kind |-> "null"]
    ELSE [kind |-> "ok",
          item |-> IF includeChildren
                   THEN [attachments |-> LocalGetItemAttachments(key),
                         notes |-> LocalGetItemNotes(key),
                         annotations |-> LocalGetItemAnnotations(key)]
                        @@ LocalItem(key)
                   ELSE LocalItem(key)]

LocalGetTags(filterQuery) ==
    LET carriers(t) == {k \in DOMAIN items : k \notin deletedItems /\ t \in itemTags[k]}
        groups == {t \in Tags :
                      /\ carriers(t) # {}
                      /\ filterQuery # <<>> => Contains(TagText(t), filterQuery)}
        \* ORDER BY count DESC, t.name
        RECURSIVE Ordered(_)
        Ordered(S) ==
            IF S = {} THEN <<>>
            ELSE LET first == CHOOSE t \in S : \A u \in S :
                                  \/ Cardinality(carriers(t)) > Cardinality(carriers(u))
                                  \/ /\ Cardinality(carriers(t)) = Cardinality(carriers(u))
                                     /\ TagRank(t) <= TagRank(u)
                 IN <<[tag |-> first, count |-> Cardinality(carriers(first))]>>
                        \o Ordered(S \ {first})
    IN Ordered(groups)

LocalGetRecentItems(days, limit) ==
    LET cutoff == Cutoff(now, days)
        matching == {k \in DOMAIN items :
                        /\ k \notin deletedItems
                        /\ items[k].itemType \notin ChildTypes
                        /\ \/ DateNotBeforeStr(items[k].dateModified, cutoff)
                           \/ DateNotBeforeStr(items[k].dateAdded, cutoff)}
        rows == LimitOffset(OrderBy(matching, "dateModified", "desc"), limit, 0)
    IN [n \in 1..Len(rows) |-> LocalItem(rows[n])]

LocalSearchFullText(query, limit) ==
    LET hits == {k \in DOMAIN FulltextContent :
                    /\ k \in DOMAIN items
                    /\ items[k].itemType = "attachment"
                    /\ k \notin deletedItems
                    /\ Contains(FulltextContent[k], query)}
        rows == LimitOffset(RowsOf(hits), limit, 0)
        parentKey(k) == IF items[k].parentItem # NoKey THEN items[k].parentItem ELSE k
        \* the items pushed from row n on, given the keys seen so far
        RECURSIVE Collect(_, _)
        Collect(n, seenKeys) ==
            IF n > Len(rows) THEN <<>>
            ELSE IF parentKey(rows[n]) \in seenKeys THEN Collect(n + 1, seenKeys)
            ELSE LET item == LocalGetItem(parentKey(rows[n]), FALSE)
                     rest == Collect(n + 1, seenKeys \cup {parentKey(rows[n])})
                 IN IF item.kind = "ok" THEN <<item.item>> \o rest ELSE rest
    IN Collect(1, {})

\* getCollections: the collections not in deletedCollections, each with the
\* key of its parent if the parent is among them (idToKey) and false ("")
\* otherwise.
LocalGetCollections ==
    LET rows == RowsOf({c \in DOMAIN collections : c \notin deletedCollections})
        idToKey == {rows[n] : n \in 1..Len(rows)}
    IN [n \in 1..Len(rows) |->
           [key |-> rows[n],
            parentCollection |-> IF collections[rows[n]] # ""
                                    /\ collections[rows[n]] \in idToKey
                                 THEN collections[rows[n]] ELSE ""]]

\* getCollection: the parent's key is read from collections by id alone.
LocalGetCollection(key) ==
    IF key \notin DOMAIN collections \/ key \in deletedCollections
    THEN [kind |-> "null"]
    ELSE [kind |-> "ok",
          collection |-> [key |-> key,
                          parentCollection |->
                              IF collections[key] # ""
                                 /\ collections[key] \in DOMAIN collections
                              THEN collections[key] ELSE ""]]

\* Table itemRelations: the keys each item links to, in row order.
ItemRelations ==
    [k \in ItemKeys |->
        CASE k = "R1" -> <<"R2", "N1">>
          [] k = "R2" -> <<"R1", "R3">>
          [] OTHER    -> <<>>]

\* getRelatedItems: each linked key is resolved with getItem(key, false) and
\* kept if that finds it.
LocalGetRelatedItems(key) ==
    IF key \notin DOMAIN items THEN <<>>
    ELSE LET relations == ItemRelations[key]
             RECURSIVE Collect(_)
             Collect(n) ==
                 IF n > Len(relations) THEN <<>>
                 ELSE LET relatedItem == LocalGetItem(relations[n], FALSE)
                      IN IF relatedItem.kind = "ok"
                         THEN <<relatedItem.item>> \o Collect(n + 1)
                         ELSE Collect(n + 1)
         IN Collect(1)

\* The text the PDF extractor yields for the file of an attachment.
PdfContent ==
    [ A1 |-> <<"a", "b">>,
      A2 |-> <<"b">> ]

\* getItemFullText: `files` are the attachments whose file exists under the
\* storage directory, `parsed` those of them the extractor yields text for
\* (it yields null for the others).  The result keeps the joined texts
\* apart, each with its source; `extracted` lists the attachments
\* extractPdfText was called for.
LocalGetItemFullText(key, files, parsed) ==
    LET item == LocalGetItem(key, TRUE)
        indexed == IF key \in DOMAIN FulltextContent /\ FulltextContent[key] # <<>>
                   THEN <<[source |-> "indexed", of |-> key,
                           text |-> FulltextContent[key]]>>
                   ELSE <<>>
        attachments == IF item.kind = "ok" THEN item.item.attachments ELSE <<>>
        tried == SelectSeq(attachments,
                           LAMBDA a : a.contentType = "application/pdf"
                                         /\ a.key \in files)
        yielded == SelectSeq(tried, LAMBDA a : a.key \in parsed)
        texts == indexed \o [n \in 1..Len(yielded) |->
                                [source |-> "extracted", of |-> yielded[n].key,
                                 text |-> PdfContent[yielded[n].key]]]
    IN IF item.kind # "ok"
       THEN [result |-> [kind |-> "null"], extracted |-> <<>>]
       ELSE [result |-> IF Len(texts) > 0 THEN [kind |-> "ok", texts |-> texts]
                                          ELSE [kind |-> "null"],
             extracted |-> [n \in 1..Len(tried) |-> tried[n].key]]

\* The message getBibliography returns.
BibliographyUnsupported ==
    "Bibliography generation requires Web API mode or citeproc-js integration."

\* getBibliography as it would be if it looked the keys up and refused an
\* empty or unknown key list.
LocalGetBibliographyOfKnown(keys, style) ==
    IF Len(keys) = 0 \/ \E n \in 1..Len(keys) : keys[n] \notin DOMAIN items
    THEN [kind |-> "error", message |-> <<"Unknown item">>]
    ELSE [kind |-> "ok", text |-> BibliographyUnsupported]

LocalGetBibliography(keys, style) ==
    [kind |-> "ok", text |-> BibliographyUnsupported]

-----------------------------------------------------------------------------
(* The Zotero Web API v3 service, as the Remote backend's fetch() sees it. *)
(* It serves the same library.  Listings leave out the trash              *)
(* (includeTrashed defaults to 0); a single item is served by key whether *)
(* or not it is in the trash, with data.deleted set.                      *)

ApiItem(k) ==
    [key |-> k, version |-> items[k].version,
     data |-> [key |-> k, version |-> items[k].version,
               itemType |-> items[k].itemType, title |-> items[k].title,
               tags |-> itemTags[k], collections |-> collectionItems[k],
               parentItem |-> items[k].parentItem,
               contentType |-> items[k].contentType,
               dateAdded |-> items[k].dateAdded,
               dateModified |-> items[k].dateModified,
               deleted |-> k \in deletedItems]]

\* The top-level item that owns k.
RECURSIVE TopOf(_)
TopOf(k) == IF items[k].parentItem = NoKey THEN k ELSE TopOf(items[k].parentItem)

\* The tag parameter: parts joined by " || " are alternatives (OR).
SvcTagMatches(k, tag) ==
    \/ Len(tag.parts) = 0
    \/ /\ tag.sep = " || "
       /\ \E n \in 1..Len(tag.parts) : tag.parts[n] \in itemTags[k]

\* The items an items endpoint selects, before start/limit.
SvcSelect(req) ==
    {k \in DOMAIN items :
        /\ k \notin deletedItems
        /\ CASE req.endpoint = "items/top" -> items[k].parentItem = NoKey
             [] req.endpoint = "items" -> TRUE
             [] req.endpoint = "collections/items" ->
                    req.key \in collectionItems[TopOf(k)]
             [] req.endpoint = "collections/items/top" ->
                    items[k].parentItem = NoKey /\ req.key \in collectionItems[k]
        /\ (req.params.q # <<>> =>
               \/ Contains(items[k].title, req.params.q)
               \/ Contains(items[k].lastName, req.params.q)
               \/ /\ req.params.qmode = "everything"
                  /\ k \in DOMAIN FulltextContent
                  /\ Contains(FulltextContent[k], req.params.q))
        /\ (req.params.itemType # <<>> =>
               \E n \in 1..Len(req.params.itemType) :
                   items[k].itemType = req.params.itemType[n])
        /\ SvcTagMatches(k, req.params.tag)
        /\ (req.params.since # NoVersion => items[k].version > req.params.since)}

\* The response to a request for a list of items: the page as the body,
\* the Total-Results header and the rel="next" relation of the Link header.
SvcList(req) ==
    LET selected == SvcSelect(req)
        ordered == OrderBy(selected,
                           IF req.params.sort = "dateAdded" THEN "dateAdded"
                                                            ELSE "dateModified",
                           req.params.direction)
        page == LimitOffset(ordered, req.params.limit, req.params.start)
    IN [status |-> 200,
        data |-> [n \in 1..Len(page) |-> ApiItem(page[n])],
        totalResults |-> Cardinality(selected),
        linkNext |-> req.params.start + req.params.limit < Cardinality(selected)]

\* The response to a request for the tags: one object per tag that a live
\* item carries, with meta.numItems, in name order (no sort is asked for).
SvcTags(req) ==
    LET carriers(t) == {k \in DOMAIN items : k \notin deletedItems /\ t \in itemTags[k]}
        selected == {t \in Tags :
                        /\ carriers(t) # {}
                        /\ req.params.q # <<>> => Contains(TagText(t), req.params.q)}
        RECURSIVE ByName(_)
        ByName(S) ==
            IF S = {} THEN <<>>
            ELSE LET first == CHOOSE t \in S : \A u \in S : TagRank(t) <= TagRank(u)
                 IN <<[tag |-> first, meta |-> [numItems |-> Cardinality(carriers(first))]]>>
                        \o ByName(S \ {first})
    IN [status |-> 200, data |-> LimitOffset(ByName(selected), req.params.limit, 0)]

\* The response to any request the Remote backend sends.
Service(req) ==
    CASE req.endpoint = "tags" -> SvcTags(req)
      [] req.endpoint = "item" ->
             IF req.key \in DOMAIN items
             THEN [status |-> 200, data |-> ApiItem(req.key)]
             ELSE [status |-> 404, statusText |-> "Not Found"]
      [] req.endpoint = "children" ->
             IF req.key \in DOMAIN items
             THEN LET kids == OrderBy({k \in DOMAIN items :
                                          /\ items[k].parentItem = req.key
                                          /\ k \notin deletedItems},
                                      "dateModified", "desc")
                  IN [status |-> 200,
                      data |-> [n \in 1..Len(kids) |-> ApiItem(kids[n])]]
             ELSE [status |-> 404, statusText |-> "Not Found"]
      [] req.endpoint = "collection" ->
             IF req.key \in DOMAIN collections
             THEN [status |-> 200,
                   data |-> [key |-> req.key, parentCollection |-> collections[req.key]]]
             ELSE [status |-> 404, statusText |-> "Not Found"]
      [] req.endpoint \in {"collections/items", "collections/items/top"} ->
             IF req.key \in DOMAIN collections
             THEN SvcList(req)
             ELSE [status |-> 404, statusText |-> "Not Found"]
      [] OTHER -> SvcList(req)

\* The responses that are not ok and that the service may give to any
\* request: a server error, a refusal, and throttling with or without a
\* Retry-After header.
Faults ==
    {[status |-> 500, statusText |-> "Internal Server Error"],
     [status |-> 403, statusText |-> "Forbidden"],
     [status |-> 429, statusText |-> "Too Many Requests", retryAfter |-> ""],
     [status |-> 429, statusText |-> "Too Many Requests", retryAfter |-> "404"]}

\* The responses the service may give to req.
ServiceAnswers(req) == {Service(req)} \cup Faults

-----------------------------------------------------------------------------
(* Remote backend *)

\* mapApiItem: {key, version, ...data}; the fields of data win.
mapApiItem(apiItem) ==
    apiItem.data @@ [key |-> apiItem.key, version |-> apiItem.version]

\* request() as it would be if the throttling message always named the
\* default delay.
RequestErrorDefaultDelay(response) ==
    IF response.status = 429
    THEN [kind |-> "error", status |-> 429,
          message |-> <<"Rate limited. Retry after", "5", "seconds.">>]
    ELSE [kind |-> "error", status |-> response.status,
          message |-> <<"API request failed:", ToString(response.status),
                        response.statusText>>]

\* request(): the error thrown for a response that is not ok.  The message
\* is kept as its pieces, the interpolated values as text.
RequestError(response) ==
    IF response.status = 429
    THEN [kind |-> "error", status |-> 429,
          message |-> <<"Rate limited. Retry after",
                        IF response.retryAfter # "" THEN response.retryAfter ELSE "5",
                        "seconds.">>]
    ELSE [kind |-> "error", status |-> response.status,
          message |-> <<"API request failed:", ToString(response.status),
                        response.statusText>>]

\* error.message.includes(text), for a text that is one interpolated value.
MessageIncludes(error, text) ==
    \E n \in 1..Len(error.message) : error.message[n] = text

\* filters.tags.join(" || ")
JoinTags(tags) == [sep |-> " || ", parts |-> tags]

NoTag == [sep |-> "", parts |-> <<>>]

\* The paging and sorting parameters both list operations start from.
BaseParams(filters) ==
    [limit |-> IF filters.limit # 0 THEN filters.limit ELSE DefaultLimit,
     start |-> filters.start,
     sort |-> IF filters.sort # "" THEN filters.sort ELSE "dateModified",
     direction |-> IF filters.direction # "" THEN filters.direction ELSE "desc",
     q |-> <<>>, qmode |-> "", itemType |-> <<>>, tag |-> NoTag,
     since |-> NoVersion]

\* fetchItemsWithTotal, given the response to its request.
fetchItemsWithTotal(response) ==
    IF response.status # 200 THEN RequestError(response)
    ELSE LET found == [n \in 1..Len(response.data) |-> mapApiItem(response.data[n])]
         IN [kind |-> "ok", items |-> found,
             totalResults |-> response.totalResults,
             hasMore |-> response.linkNext,
             nextStart |-> Len(found)]

\* The request searchItems builds.
RemoteSearchRequest(query, filters) ==
    LET p0 == BaseParams(filters)
        p1 == IF query # <<>> THEN [p0 EXCEPT !.q = query, !.qmode = "everything"]
                              ELSE p0
        p2 == IF filters.itemType # <<>> THEN [p1 EXCEPT !.itemType = filters.itemType]
                                         ELSE p1
        p3 == IF Len(filters.tags) > 0 THEN [p2 EXCEPT !.tag = JoinTags(filters.tags)]
                                       ELSE p2
    IN IF filters.collectionKey # ""
       THEN [endpoint |-> "collections/items", key |-> filters.collectionKey,
             params |-> p3]
       ELSE [endpoint |-> "items/top", key |-> "",
             params |-> IF filters.sinceVersion # NoVersion
                        THEN [p3 EXCEPT !.since = filters.sinceVersion]
                        ELSE p3]

RemoteSearchItems(query, filters) ==
    fetchItemsWithTotal(Service(RemoteSearchRequest(query, filters)))

\* The request getCollectionItems builds.
RemoteCollectionRequest(collectionKey, recursive, filters) ==
    [endpoint |-> IF recursive THEN "collections/items" ELSE "collections/items/top",
     key |-> collectionKey, params |-> BaseParams(filters)]

RemoteGetCollectionItems(collectionKey, recursive, filters) ==
    fetchItemsWithTotal(Service(RemoteCollectionRequest(collectionKey, recursive, filters)))

ItemRequest(key) == [endpoint |-> "item", key |-> key]
ChildrenRequest(key) == [endpoint |-> "children", key |-> key]

OfType(children, type) == SelectSeq(children, LAMBDA c : c.itemType = type)

\* The mapped children of an item, or the error request() throws.
RemoteChildren(key) ==
    LET response == Service(ChildrenRequest(key))
    IN IF response.status # 200 THEN RequestError(response)
       ELSE [kind |-> "ok",
             items |-> [n \in 1..Len(response.data) |-> mapApiItem(response.data[n])]]

RemoteGetItemNotes(key) ==
    LET children == RemoteChildren(key)
    IN IF children.kind # "ok" THEN children
       ELSE [kind |-> "ok", items |-> OfType(children.items, "note")]

RemoteGetItemAttachments(key) ==
    LET children == RemoteChildren(key)
    IN IF children.kind # "ok" THEN children
       ELSE [kind |-> "ok", items |-> OfType(children.items, "attachment")]

RemoteGetItemAnnotations(key) ==
    LET attachments == RemoteGetItemAttachments(key)
        RECURSIVE Collect(_)
        \* the annotations pushed from attachment n on, or the first error
        Collect(n) ==
            IF n > Len(attachments.items) THEN [kind |-> "ok", items |-> <<>>]
            ELSE IF attachments.items[n].contentType # "application/pdf"
            THEN Collect(n + 1)
            ELSE LET children == RemoteChildren(attachments.items[n].key)
                     rest == Collect(n + 1)
                 IN IF children.kind # "ok" THEN children
                    ELSE IF rest.kind # "ok" THEN rest
                    ELSE [kind |-> "ok",
                          items |-> OfType(children.items, "annotation") \o rest.items]
    IN IF attachments.kind # "ok" THEN attachments ELSE Collect(1)

\* The requests getItemAnnotations sends.
RemoteAnnotationRequests(key) ==
    LET attachments == RemoteGetItemAttachments(key)
        pdfs == IF attachments.kind = "ok"
                THEN SelectSeq(attachments.items,
                               LAMBDA a : a.contentType = "application/pdf")
                ELSE <<>>
    IN <<ChildrenRequest(key)>> \o [n \in 1..Len(pdfs) |-> ChildrenRequest(pdfs[n].key)]

\* What getItem's catch clause makes of an error thrown inside its try.
GetItemCatch(error) ==
    IF MessageIncludes(error, "404") THEN [kind |-> "null"] ELSE error

\* getItem, given the response to its request for the item.
RemoteGetItemOn(response, key, includeChildren) ==
    IF response.status # 200 THEN GetItemCatch(RequestError(response))
       ELSE LET item == mapApiItem(response.data)
                children == RemoteChildren(key)
            IN IF ~includeChildren THEN [kind |-> "ok", item |-> item]
               ELSE IF children.kind # "ok" THEN GetItemCatch(children)
               ELSE [kind |-> "ok",
                     item |-> [attachments |-> OfType(children.items, "attachment"),
                               notes |-> OfType(children.items, "note"),
                               annotations |-> OfType(children.items, "annotation")]
                              @@ item]

RemoteGetItem(key, includeChildren) ==
    RemoteGetItemOn(Service(ItemRequest(key)), key, includeChildren)

TagsPageLimit == 100

\* The request getTags builds.
TagsRequest(filterQuery) ==
    [endpoint |-> "tags", key |-> "",
     params |-> [limit |-> TagsPageLimit, q |-> filterQuery]]

RemoteGetTags(filterQuery) ==
    LET response == Service(TagsRequest(filterQuery))
    IN IF response.status # 200 THEN RequestError(response)
       ELSE [kind |-> "ok",
             items |-> [n \in 1..Len(response.data) |->
                           [tag |-> response.data[n].tag,
                            count |-> response.data[n].meta.numItems]]]

\* The request getRecentItems builds.
RecentRequest(limit) ==
    [endpoint |-> "items/top", key |-> "",
     params |-> [BaseParams(NoFilters) EXCEPT !.limit = limit]]

\* new Date(item.dateModified) >= cutoff, false for an item without the date.
RemoteIsRecent(item, cutoff) ==
    IF item.dateModified # 0 THEN item.dateModified >= cutoff ELSE FALSE

RemoteGetRecentItems(days, limit) ==
    LET response == Service(RecentRequest(limit))
        cutoff == Cutoff(now, days)
    IN IF response.status # 200 THEN RequestError(response)
       ELSE LET found == [n \in 1..Len(response.data) |-> mapApiItem(response.data[n])]
            IN [kind |-> "ok",
                items |-> SelectSeq(found, LAMBDA item : RemoteIsRecent(item, cutoff))]

\* The request searchFullText builds.
FullTextRequest(query, limit) ==
    [endpoint |-> "items", key |-> "",
     params |-> [BaseParams(NoFilters) EXCEPT !.q = query, !.qmode = "everything",
                                              !.limit = limit]]

RemoteSearchFullText(query, limit) ==
    LET response == Service(FullTextRequest(query, limit))
    IN IF response.status # 200 THEN RequestError(response)
       ELSE [kind |-> "ok",
             items |-> [n \in 1..Len(response.data) |-> mapApiItem(response.data[n])]]

CollectionRequest(key) == [endpoint |-> "collection", key |-> key]

\* getCollection, given the response to its request: the catch clause turns
\* whatever request() throws into null.
RemoteGetCollectionOn(response) ==
    IF response.status # 200 THEN [kind |-> "null"]
    ELSE [kind |-> "ok", collection |-> response.data]

-----------------------------------------------------------------------------
(* Cache *)

DefaultTtlSeconds == 300

CacheKeys == {"k1", "k2"}
CacheValues == {"v1", "v2"}
Absent == "undefined"
NoTime == 0 - 1     \* no set yet
EmptyStore == [k \in {} |-> Absent]
NoSetLog == [key |-> Absent, value |-> Absent, prevAt |-> NoTime]

StoreDelete(k) == [j \in DOMAIN store \ {k} |-> store[j]]

\* The test get and cleanup apply to an entry.
Expired(entry) == now > entry.expires

\* The store get(key) leaves behind, were it not to delete what has expired.
GetStoreKeep(key) == store

\* The store get(key) leaves behind.
GetStore(key) ==
    IF key \in DOMAIN store /\ Expired(store[key]) THEN StoreDelete(key) ELSE store

\* What get(key) returns.
GetValue(key) ==
    IF key \notin DOMAIN store THEN Absent
    ELSE IF Expired(store[key]) THEN Absent
    ELSE store[key].value

\* The store set(key, value) would leave behind if a set of a key the store
\* holds kept that entry's expiry.
SetStoreKeepExpiry(key, value) ==
    [j \in DOMAIN store \cup {key} |->
        IF j # key THEN store[j]
        ELSE IF key \in DOMAIN store
             THEN [value |-> value, expires |-> store[key].expires]
             ELSE [value |-> value, expires |-> now + ttl]]

\* The store set(key, value) leaves behind.
SetStore(key, value) ==
    [j \in DOMAIN store \cup {key} |->
        IF j = key THEN [value |-> value, expires |-> now + ttl] ELSE store[j]]

\* The record of the last set call once the store has become newStore.
LogAfter(newStore) == IF setLog.key \in DOMAIN newStore THEN setLog ELSE NoSetLog

\* The store cleanup() would leave behind if it removed nothing.
CleanupStoreKeepAll == store

\* The store cleanup() leaves behind.
CleanupStore == [j \in {k \in DOMAIN store : ~Expired(store[k])} |-> store[j]]

-----------------------------------------------------------------------------
(* Configuration, the server's backend slot and backend construction *)

ZoteroModes == {"web", "local"}

\* The data directories a configuration may name.
DataDirs == {"d1", "d2"}

\* What the environment supplied: every combination of the settings the
\* validation reads ("" = the variable is not set and nothing was detected).
Configs ==
    [mode : ZoteroModes, apiKey : {"", "key"}, userId : {"", "u1"},
     groupId : {"", "g1"}, dataDir : {"", "d1"}]

\* A data directory as the file system and SQLite present it: the directory
\* exists, zotero.sqlite exists in it, opening it read-only succeeds, and
\* `readable` of the three mapping queries of loadMappings succeed (fewer
\* than three: the next one throws, e.g. because the store is locked).
NumMappingTables == Len(<<"fields", "itemTypes", "creatorTypes">>)

DirStates ==
    {d \in [dir : BOOLEAN, sqlite : BOOLEAN, opens : BOOLEAN,
            readable : 0..NumMappingTables] :
        /\ d.sqlite => d.dir
        /\ d.opens => d.sqlite
        /\ d.readable > 0 => d.opens}

GoodDir == [dir |-> TRUE, sqlite |-> TRUE, opens |-> TRUE,
            readable |-> NumMappingTables]

\* The id tables of the store in each data directory: the two stores number
\* their item types and creator types differently.
StoreTables(dataDir) ==
    IF dataDir = "d1"
    THEN [fields       |-> (1 :> "title" @@ 2 :> "url"),
          itemTypes    |-> (1 :> "book" @@ 2 :> "note"),
          creatorTypes |-> (1 :> "author" @@ 2 :> "editor")]
    ELSE [fields       |-> (1 :> "title" @@ 2 :> "DOI"),
          itemTypes    |-> (1 :> "note" @@ 2 :> "journalArticle"),
          creatorTypes |-> (1 :> "editor" @@ 2 :> "author")]

EmptyTable == [id \in {} |-> ""]

\* const FIELD_NAMES = {}, ITEM_TYPES = {}, CREATOR_TYPES = {}
EmptyLookups ==
    [FIELD_NAMES |-> EmptyTable, ITEM_TYPES |-> EmptyTable,
     CREATOR_TYPES |-> EmptyTable]

\* this.backend = null: no instance (instances are numbered from 1).
NoBackend == 0

\* globalConfig = null
NoConfig == [mode |-> "null"]

\* The messages of validateConfig (the path interpolated into the last two
\* is left out).
ApiKeyRequired    == "ZOTERO_API_KEY is required for web mode"
LibraryIdRequired == "ZOTERO_USER_ID or ZOTERO_GROUP_ID is required for web mode"
DataDirUndetected == "Could not detect Zotero data directory. Set ZOTERO_DATA_DIR"
DataDirMissing    == "Zotero data directory does not exist"
SqliteMissing     == "zotero.sqlite not found"

\* validateConfig as it would be if it returned at the first error.
validateConfigFirstOnly(cfg, fs) ==
    IF cfg.mode = "web"
    THEN IF cfg.apiKey = "" THEN <<ApiKeyRequired>>
         ELSE IF cfg.userId = "" /\ cfg.groupId = "" THEN <<LibraryIdRequired>>
         ELSE <<>>
    ELSE IF cfg.dataDir = "" THEN <<DataDirUndetected>>
         ELSE IF ~fs[cfg.dataDir].dir THEN <<DataDirMissing>>
         ELSE IF ~fs[cfg.dataDir].sqlite THEN <<SqliteMissing>>
         ELSE <<>>

\* validateConfig: the list of errors, fs being the file system it probes
\* with existsSync.
validateConfig(cfg, fs) ==
    IF cfg.mode = "web"
    THEN (IF cfg.apiKey = "" THEN <<ApiKeyRequired>> ELSE <<>>)
         \o (IF cfg.userId = "" /\ cfg.groupId = "" THEN <<LibraryIdRequired>>
                                                     ELSE <<>>)
    ELSE IF cfg.mode = "local"
    THEN IF cfg.dataDir = "" THEN <<DataDirUndetected>>
         ELSE IF ~fs[cfg.dataDir].dir THEN <<DataDirMissing>>
         ELSE IF ~fs[cfg.dataDir].sqlite THEN <<SqliteMissing>>
         ELSE <<>>
    ELSE <<>>

\* for (const row of rows) TABLE[row.id] = row.name: the rows are written
\* over whatever the table already holds.
MergeTable(table, rows) ==
    [id \in DOMAIN table \cup DOMAIN rows |->
        IF id \in DOMAIN rows THEN rows[id] ELSE table[id]]

\* loadMappings, of which the first `readable` queries succeed: the module's
\* tables afterwards.
loadMappings(lk, tables, readable) ==
    [FIELD_NAMES   |-> IF readable >= 1 THEN MergeTable(lk.FIELD_NAMES, tables.fields)
                                        ELSE lk.FIELD_NAMES,
     ITEM_TYPES    |-> IF readable >= 2 THEN MergeTable(lk.ITEM_TYPES, tables.itemTypes)
                                        ELSE lk.ITEM_TYPES,
     CREATOR_TYPES |-> IF readable >= 3
                       THEN MergeTable(lk.CREATOR_TYPES, tables.creatorTypes)
                       ELSE lk.CREATOR_TYPES]

\* new LocalBackend(cfg): whether the constructor returns, whether it opened
\* a store handle, and the module's tables afterwards.
NewLocalBackend(cfg, fs, lk) ==
    IF cfg.dataDir = "" \/ ~fs[cfg.dataDir].sqlite
    THEN [ok |-> FALSE, opened |-> FALSE, lookups |-> lk,
          message |-> "Zotero database not found"]
    ELSE IF ~fs[cfg.dataDir].opens
    THEN [ok |-> FALSE, opened |-> FALSE, lookups |-> lk,
          message |-> "unable to open database file"]
    ELSE [ok |-> fs[cfg.dataDir].readable = NumMappingTables,
          opened |-> TRUE,
          lookups |-> loadMappings(lk, StoreTables(cfg.dataDir),
                                   fs[cfg.dataDir].readable),
          message |-> "database is locked"]

\* new WebAPIBackend(cfg) always returns.
NewWebAPIBackend(cfg, lk) ==
    [ok |-> TRUE, opened |-> FALSE, lookups |-> lk, message |-> ""]

\* The test as it would be if the slot were never trusted.
NeedsBackendAlways(current) == TRUE

\* if (!this.backend)
NeedsBackend(current) == current = NoBackend

\* ITEM_TYPES[row.itemTypeID] || "unknown"
rowToItem(row, lk) ==
    [key |-> row.key,
     itemType |-> IF row.itemTypeID \in DOMAIN lk.ITEM_TYPES
                  THEN lk.ITEM_TYPES[row.itemTypeID] ELSE "unknown"]

\* CREATOR_TYPES[c.creatorTypeID] || "author"
loadItemCreators(row, lk) ==
    [creatorType |-> IF row.creatorTypeID \in DOMAIN lk.CREATOR_TYPES
                     THEN lk.CREATOR_TYPES[row.creatorTypeID] ELSE "author"]

\* No server started: the state the backend specifications leave untouched.
InitServerIdle ==
    /\ config = [mode |-> "local", apiKey |-> "", userId |-> "", groupId |-> "",
                 dataDir |-> "d1"]
    /\ globalConfig = NoConfig
    /\ disk = [d \in DataDirs |-> GoodDir]
    /\ serverBackend = NoBackend
    /\ instances = <<>>
    /\ handles = <<>>
    /\ lookups = EmptyLookups

NoWalk == [state |-> "idle"]

-----------------------------------------------------------------------------
(* Calls *)

NoCall == [op |-> "none"]

Queries == {<<>>, <<"a">>, <<"u">>}

\* The filters of a paginated call.
PageFilters ==
    {[NoFilters EXCEPT !.start = s, !.limit = l, !.collectionKey = c] :
        s \in 0..MaxStart, l \in 0..MaxLimit, c \in {"", "C1"}}

\* The tag lists of a call: up to MaxTagList different tags, in any order.
TagLists ==
    {t \in UNION {[1..n -> Tags] : n \in 0..MaxTagList} :
        \A i, j \in 1..Len(t) : i # j => t[i] # t[j]}

TagFilters == {[NoFilters EXCEPT !.tags = t] : t \in TagLists}

\* filters.itemType after split(",") and trim.
TypeLists == {<<>>, <<"book">>, <<"note">>, <<"attachment">>,
              <<"journalArticle", "book">>}

TypeFilters ==
    {[NoFilters EXCEPT !.itemType = t, !.collectionKey = c] :
        t \in TypeLists, c \in {"", "C1", "C4"}}

\* A page size above the configured maximum.
OverLimitFilters == {[NoFilters EXCEPT !.limit = ConfigMaxLimit + 1]}

\* The version floors of an incremental sync, with and without a collection.
SinceFilters ==
    {[NoFilters EXCEPT !.sinceVersion = v, !.collectionKey = c] :
        v \in {0, 1, 2}, c \in {"", "C1"}}

\* The (query, filters) pairs searchItems is called with.
SearchInputs ==
    (Queries \X PageFilters)
        \cup ({<<>>} \X (TagFilters \cup TypeFilters \cup OverLimitFilters
                            \cup SinceFilters))

\* The filters of a getCollectionItems call.
CollectionFilters ==
    {[NoFilters EXCEPT !.start = s, !.limit = l] :
        s \in 0..MaxStart, l \in 0..MaxLimit}

CallLocalSearchItems ==
    /\ call.op = "none"
    /\ \E in \in SearchInputs :
        LET query == in[1]
            filters == in[2]
        IN
          /\ call' = [op |-> "searchItems", backend |-> "local",
                      query |-> query, filters |-> filters]
          /\ result' = LocalSearchItems(query, filters)
          /\ requests' = <<>>
    /\ UNCHANGED <<libVars, cacheVars, serverVars, walk>>

CallRemoteSearchItems ==
    /\ call.op = "none"
    /\ \E in \in SearchInputs :
        LET query == in[1]
            filters == in[2]
        IN
          /\ call' = [op |-> "searchItems", backend |-> "remote",
                      query |-> query, filters |-> filters]
          /\ result' = RemoteSearchItems(query, filters)
          /\ requests' = <<RemoteSearchRequest(query, filters)>>
    /\ UNCHANGED <<libVars, cacheVars, serverVars, walk>>

CallLocalGetCollectionItems ==
    /\ call.op = "none"
    /\ \E c \in CollKeys, recursive \in BOOLEAN, filters \in CollectionFilters :
          /\ call' = [op |-> "getCollectionItems", backend |-> "local", key |-> c,
                      recursive |-> recursive, filters |-> filters]
          /\ result' = LocalGetCollectionItems(c, recursive, filters)
          /\ requests' = <<>>
    /\ UNCHANGED <<libVars, cacheVars, serverVars, walk>>

CallRemoteGetCollectionItems ==
    /\ call.op = "none"
    /\ \E c \in CollKeys, recursive \in BOOLEAN, filters \in CollectionFilters :
          /\ call' = [op |-> "getCollectionItems", backend |-> "remote", key |-> c,
                      recursive |-> recursive, filters |-> filters]
          /\ result' = RemoteGetCollectionItems(c, recursive, filters)
          /\ requests' = <<RemoteCollectionRequest(c, recursive, filters)>>
    /\ UNCHANGED <<libVars, cacheVars, serverVars, walk>>

\* The keys the single-item operations are called with: every key of the
\* library and one that names nothing.
CallKeys == ItemKeys \cup {"ZZ"}

CallLocalGetItem ==
    /\ call.op = "none"
    /\ \E key \in CallKeys, includeChildren \in BOOLEAN :
          /\ call' = [op |-> "getItem", backend |-> "local", key |-> key,
                      includeChildren |-> includeChildren]
          /\ result' = LocalGetItem(key, includeChildren)
          /\ requests' = <<>>
    /\ UNCHANGED <<libVars, cacheVars, serverVars, walk>>

\* What request() threw on the response, with the Retry-After header the
\* response advertised ("" = none).
Thrown(response) ==
    IF response.status = 200 THEN [kind |-> "none"]
    ELSE [kind |-> "error", error |-> RequestError(response),
          retryAfter |-> IF response.status = 429 THEN response.retryAfter ELSE ""]

\* `status` records the status of the service's answer to the request for
\* the entity itself, `thrown` what request() threw on it.
CallRemoteGetItem ==
    /\ call.op = "none"
    /\ \E key \in CallKeys, includeChildren \in BOOLEAN :
          \E response \in ServiceAnswers(ItemRequest(key)) :
              /\ call' = [op |-> "getItem", backend |-> "remote", key |-> key,
                          includeChildren |-> includeChildren,
                          status |-> response.status,
                          thrown |-> Thrown(response)]
              /\ result' = RemoteGetItemOn(response, key, includeChildren)
              /\ requests' = IF includeChildren /\ response.status = 200
                             THEN <<ItemRequest(key), ChildrenRequest(key)>>
                             ELSE <<ItemRequest(key)>>
    /\ UNCHANGED <<libVars, cacheVars, serverVars, walk>>

\* The keys getCollection is called with: every collection and one key that
\* names nothing.
CallCollKeys == CollKeys \cup {"ZZ"}

CallRemoteGetCollection ==
    /\ call.op = "none"
    /\ \E key \in CallCollKeys :
          \E response \in ServiceAnswers(CollectionRequest(key)) :
              /\ call' = [op |-> "getCollection", backend |-> "remote", key |-> key,
                          status |-> response.status,
                          thrown |-> Thrown(response)]
              /\ result' = RemoteGetCollectionOn(response)
              /\ requests' = <<CollectionRequest(key)>>
    /\ UNCHANGED <<libVars, cacheVars, serverVars, walk>>

\* The key lists and styles getBibliography is called with ("" = no style
\* given).
BibKeyLists == {<<>>, <<"R1">>, <<"ZZ">>, <<"R1", "R2">>, <<"R1", "ZZ">>}
BibStyles == {"", "apa", "chicago-note-bibliography"}

CallLocalGetBibliography ==
    /\ call.op = "none"
    /\ \E keys \in BibKeyLists, style \in BibStyles :
          /\ call' = [op |-> "getBibliography", backend |-> "local", keys |-> keys,
                      style |-> style]
          /\ result' = LocalGetBibliography(keys, IF style # "" THEN style ELSE "apa")
    /\ requests' = <<>>
    /\ UNCHANGED <<libVars, cacheVars, serverVars, walk>>

CallLocalChildren ==
    /\ call.op = "none"
    /\ \E key \in CallKeys :
          \/ /\ call' = [op |-> "getItemNotes", backend |-> "local", key |-> key]
             /\ result' = [kind |-> "ok", items |-> LocalGetItemNotes(key)]
          \/ /\ call' = [op |-> "getItemAttachments", backend |-> "local", key |-> key]
             /\ result' = [kind |-> "ok", items |-> LocalGetItemAttachments(key)]
          \/ /\ call' = [op |-> "getItemAnnotations", backend |-> "local", key |-> key]
             /\ result' = [kind |-> "ok", items |-> LocalGetItemAnnotations(key)]
    /\ requests' = <<>>
    /\ UNCHANGED <<libVars, cacheVars, serverVars, walk>>

CallRemoteChildren ==
    /\ call.op = "none"
    /\ \E key \in CallKeys :
          \/ /\ call' = [op |-> "getItemNotes", backend |-> "remote", key |-> key]
             /\ result' = RemoteGetItemNotes(key)
             /\ requests' = <<ChildrenRequest(key)>>
          \/ /\ call' = [op |-> "getItemAttachments", backend |-> "remote", key |-> key]
             /\ result' = RemoteGetItemAttachments(key)
             /\ requests' = <<ChildrenRequest(key)>>
          \/ /\ call' = [op |-> "getItemAnnotations", backend |-> "remote", key |-> key]
             /\ result' = RemoteGetItemAnnotations(key)
             /\ requests' = RemoteAnnotationRequests(key)
    /\ UNCHANGED <<libVars, cacheVars, serverVars, walk>>

\* The attachments whose PDF may be on disk.
PdfFiles == DOMAIN PdfContent

CallLocalGetItemFullText ==
    /\ call.op = "none"
    /\ \E key \in CallKeys, files \in SUBSET PdfFiles :
          \E parsed \in SUBSET files :
              LET r == LocalGetItemFullText(key, files, parsed)
              IN /\ call' = [op |-> "getItemFullText", backend |-> "local",
                             key |-> key, files |-> files, parsed |-> parsed,
                             extracted |-> r.extracted]
                 /\ result' = r.result
    /\ requests' = <<>>
    /\ UNCHANGED <<libVars, cacheVars, serverVars, walk>>

\* The caller has its answer; the materialised entities are dropped.
Return ==
    /\ call.op # "none"
    /\ call' = NoCall /\ result' = NoCall /\ requests' = <<>>
    /\ UNCHANGED <<libVars, cacheVars, serverVars, walk>>

InitCalls == call = NoCall /\ result = NoCall /\ requests = <<>>

\* A Cache as constructed by default and never used.
InitCacheIdle ==
    /\ ttl = DefaultTtlSeconds * MsPerSecond
    /\ store = EmptyStore
    /\ now = 0
    /\ cacheCall = NoCall
    /\ got = Absent
    /\ setAt = [k \in CacheKeys |-> NoTime]
    /\ setLog = NoSetLog
    /\ ticks = 0

Init == InitLibrary /\ InitCalls /\ InitCacheIdle /\ InitServerIdle /\ walk = NoWalk

Next ==
    \/ CallLocalSearchItems
    \/ CallRemoteSearchItems
    \/ CallLocalGetCollectionItems
    \/ CallRemoteGetCollectionItems
    \/ Return

Spec == Init /\ [][Next]_vars

-----------------------------------------------------------------------------
(* Cache calls *)

CacheGet ==
    /\ \E key \in CacheKeys :
          /\ cacheCall' = [op |-> "get", key |-> key,
                           justSet |-> IF cacheCall.op = "set" /\ cacheCall.key = key
                                       THEN cacheCall.value ELSE Absent,
                           held |-> IF key \in DOMAIN store
                                    THEN store[key].value ELSE Absent]
          /\ got' = GetValue(key)
          /\ store' = GetStore(key)
    /\ setLog' = LogAfter(store')
    /\ UNCHANGED <<ttl, now, setAt, ticks, libVars, callVars, serverVars, walk>>

CacheSet ==
    /\ \E key \in CacheKeys, value \in CacheValues :
          /\ cacheCall' = [op |-> "set", key |-> key, value |-> value]
          /\ store' = SetStore(key, value)
          /\ setAt' = [setAt EXCEPT ![key] = now]
          /\ setLog' = [key |-> key, value |-> value, prevAt |-> setAt[key]]
    /\ got' = Absent
    /\ UNCHANGED <<ttl, now, ticks, libVars, callVars, serverVars, walk>>

CacheHas ==
    /\ \E key \in CacheKeys :
          /\ cacheCall' = [op |-> "has", key |-> key]
          /\ got' = (GetValue(key) # Absent)
          /\ store' = GetStore(key)
    /\ setLog' = LogAfter(store')
    /\ UNCHANGED <<ttl, now, setAt, ticks, libVars, callVars, serverVars, walk>>

CacheDelete ==
    /\ \E key \in CacheKeys :
          /\ cacheCall' = [op |-> "delete", key |-> key]
          /\ got' = (key \in DOMAIN store)
          /\ store' = StoreDelete(key)
    /\ setLog' = LogAfter(store')
    /\ UNCHANGED <<ttl, now, setAt, ticks, libVars, callVars, serverVars, walk>>

CacheClear ==
    /\ cacheCall' = [op |-> "clear"]
    /\ got' = Absent
    /\ store' = EmptyStore
    /\ setLog' = LogAfter(store')
    /\ UNCHANGED <<ttl, now, setAt, ticks, libVars, callVars, serverVars, walk>>

CacheCleanup ==
    /\ cacheCall' = [op |-> "cleanup",
                     removed |-> {k \in DOMAIN store : Expired(store[k])}]
    /\ got' = Absent
    /\ store' = CleanupStore
    /\ setLog' = LogAfter(store')
    /\ UNCHANGED <<ttl, now, setAt, ticks, libVars, callVars, serverVars, walk>>

\* Time passes: one millisecond, or one millisecond less than the TTL.
Tick ==
    /\ ticks < MaxTicks
    /\ \E d \in {1, ttl - 1} : now' = now + d
    /\ ticks' = ticks + 1
    /\ cacheCall' = [op |-> "tick"]
    /\ UNCHANGED <<ttl, store, got, setAt, setLog, libVars, callVars, serverVars, walk>>

\* new Cache(ttlSeconds) over the base library, no backend call made.
InitCache ==
    /\ items = BaseItems
    /\ deletedItems = {}
    /\ itemTags = BaseTags
    /\ collectionItems = BaseCollectionItems
    /\ collections = BaseCollections
    /\ deletedCollections = {}
    /\ InitCalls
    /\ \E ttlSeconds \in 1..MaxTtlSeconds : ttl = ttlSeconds * MsPerSecond
    /\ store = EmptyStore
    /\ now = 0
    /\ cacheCall = NoCall
    /\ got = Absent
    /\ setAt = [k \in CacheKeys |-> NoTime]
    /\ setLog = NoSetLog
    /\ ticks = 0
    /\ InitServerIdle
    /\ walk = NoWalk

NextCache ==
    \/ CacheGet
    \/ CacheSet
    \/ CacheHas
    \/ CacheDelete
    \/ CacheClear
    \/ CacheCleanup
    \/ Tick

SpecCache == InitCache /\ [][NextCache]_vars

\* The operations on one item and its children.
NextItem ==
    \/ CallLocalGetItem
    \/ CallRemoteGetItem
    \/ CallRemoteGetCollection
    \/ CallLocalChildren
    \/ CallRemoteChildren
    \/ CallLocalGetBibliography
    \/ CallLocalGetItemFullText
    \/ Return

SpecItem == Init /\ [][NextItem]_vars

-----------------------------------------------------------------------------
(* Calls that browse the library: recent items, tags, full text *)

\* The instants the calls are made at: one o'clock of the fourth day, on the
\* second and half a second past it.
FirstCallInstant == 3 * DayMs + 60 * 60 * MsPerSecond
CallInstants == {FirstCallInstant, FirstCallInstant + 500}

\* The dates of the items whose dates vary: two days before the first call,
\* one day before it to the second, and one second before it.
ItemDates ==
    {FirstCallInstant - 2 * DayMs, FirstCallInstant - DayMs,
     FirstCallInstant - MsPerSecond}

\* The base library with the dates of R1 and R2 varied and R3 added and
\* modified a second before the first call; the children and the standalone
\* note keep their early dates.
DatedItems ==
    {[BaseItems EXCEPT !["R1"].dateAdded = a1, !["R1"].dateModified = m1,
                       !["R2"].dateAdded = a2, !["R2"].dateModified = m2,
                       !["R3"].dateAdded = FirstCallInstant - MsPerSecond,
                       !["R3"].dateModified = FirstCallInstant - MsPerSecond] :
        a1 \in ItemDates, m1 \in ItemDates, a2 \in ItemDates, m2 \in ItemDates}

InitBrowse ==
    /\ items \in DatedItems
    /\ deletedItems \in {S \in SUBSET {"R1", "R3", "A1"} : Cardinality(S) <= MaxTrashed}
    /\ itemTags \in {[BaseTags EXCEPT !["R3"] = T] : T \in {{}, {"tb"}}}
    /\ collectionItems = BaseCollectionItems
    /\ collections = BaseCollections
    /\ deletedCollections = {}
    /\ InitCalls
    /\ ttl = DefaultTtlSeconds * MsPerSecond
    /\ store = EmptyStore
    /\ now \in CallInstants
    /\ cacheCall = NoCall
    /\ got = Absent
    /\ setAt = [k \in CacheKeys |-> NoTime]
    /\ setLog = NoSetLog
    /\ ticks = 0
    /\ InitServerIdle
    /\ walk = NoWalk

CallLocalGetRecentItems ==
    /\ call.op = "none"
    /\ \E days \in 0..MaxDays, limit \in 1..MaxLimit :
          /\ call' = [op |-> "getRecentItems", backend |-> "local", days |-> days,
                      limit |-> limit]
          /\ result' = [kind |-> "ok", items |-> LocalGetRecentItems(days, limit)]
    /\ requests' = <<>>
    /\ UNCHANGED <<libVars, cacheVars, serverVars, walk>>

CallRemoteGetRecentItems ==
    /\ call.op = "none"
    /\ \E days \in 0..MaxDays, limit \in 1..MaxLimit :
          /\ call' = [op |-> "getRecentItems", backend |-> "remote", days |-> days,
                      limit |-> limit]
          /\ result' = RemoteGetRecentItems(days, limit)
          /\ requests' = <<RecentRequest(limit)>>
    /\ UNCHANGED <<libVars, cacheVars, serverVars, walk>>

\* The filterQuery values getTags is called with (<<>> = none).
TagQueries == {<<>>, <<"t">>, <<"a">>}

CallLocalGetTags ==
    /\ call.op = "none"
    /\ \E filterQuery \in TagQueries :
          /\ call' = [op |-> "getTags", backend |-> "local", filterQuery |-> filterQuery]
          /\ result' = [kind |-> "ok", items |-> LocalGetTags(filterQuery)]
    /\ requests' = <<>>
    /\ UNCHANGED <<libVars, cacheVars, serverVars, walk>>

CallRemoteGetTags ==
    /\ call.op = "none"
    /\ \E filterQuery \in TagQueries :
          /\ call' = [op |-> "getTags", backend |-> "remote", filterQuery |-> filterQuery]
          /\ result' = RemoteGetTags(filterQuery)
          /\ requests' = <<TagsRequest(filterQuery)>>
    /\ UNCHANGED <<libVars, cacheVars, serverVars, walk>>

\* The queries searchFullText is called with.
FullTextQueries == {<<"a">>, <<"b">>, <<"z">>}

CallLocalSearchFullText ==
    /\ call.op = "none"
    /\ \E query \in FullTextQueries, limit \in 1..MaxLimit :
          /\ call' = [op |-> "searchFullText", backend |-> "local", query |-> query,
                      limit |-> limit]
          /\ result' = [kind |-> "ok", items |-> LocalSearchFullText(query, limit)]
    /\ requests' = <<>>
    /\ UNCHANGED <<libVars, cacheVars, serverVars, walk>>

CallRemoteSearchFullText ==
    /\ call.op = "none"
    /\ \E query \in FullTextQueries, limit \in 1..MaxLimit :
          /\ call' = [op |-> "searchFullText", backend |-> "remote", query |-> query,
                      limit |-> limit]
          /\ result' = RemoteSearchFullText(query, limit)
          /\ requests' = <<FullTextRequest(query, limit)>>
    /\ UNCHANGED <<libVars, cacheVars, serverVars, walk>>

NextBrowse ==
    \/ CallLocalGetRecentItems
    \/ CallRemoteGetRecentItems
    \/ CallLocalGetTags
    \/ CallRemoteGetTags
    \/ CallLocalSearchFullText
    \/ CallRemoteSearchFullText
    \/ Return

SpecBrowse == InitBrowse /\ [][NextBrowse]_vars

-----------------------------------------------------------------------------
(* The server: configuration, getBackend, and backend construction.  Every *)
(* getBackend, constructor and decoding call is recorded in `call`;         *)
(* `instances` holds one record per constructor call, whether or not the   *)
(* constructor returned.                                                   *)

MaxConstructions == 2   \* at most this many constructor calls

\* The configurations the server starts with: web mode with every
\* combination of its settings, local mode with and without a data
\* directory (the settings of the other mode unset).
StartConfigs ==
    {c \in Configs :
        \/ c.mode = "web" /\ c.dataDir = ""
        \/ c.mode = "local" /\ c.apiKey = "" /\ c.userId = "" /\ c.groupId = ""}

\* The configuration setConfig is called with.
SetConfigs ==
    {[mode |-> "web", apiKey |-> "key", userId |-> "u1", groupId |-> "",
      dataDir |-> "d1"]}

\* loadConfig(): the environment is what it was when the server read it.
loadConfig == config

\* getConfig(): the global configuration, loaded on first use.
getConfig == IF globalConfig = NoConfig THEN loadConfig ELSE globalConfig

InitServer ==
    /\ InitLibrary
    /\ InitCalls
    /\ InitCacheIdle
    /\ walk = NoWalk
    /\ config \in StartConfigs
    /\ globalConfig = NoConfig
    /\ disk \in {[d \in DataDirs |-> IF d = "d1" THEN st ELSE GoodDir] :
                    st \in DirStates}
    /\ serverBackend = NoBackend
    /\ instances = <<>>
    /\ handles = <<>>
    /\ lookups = EmptyLookups
    /\ deletedItems = {}
    /\ itemTags = BaseTags

\* The effects of one constructor call on instances, handles and lookups.
Construct(cfg, by, built) ==
    /\ instances' = Append(instances,
                           [variant |-> cfg.mode, dataDir |-> cfg.dataDir,
                            by |-> by, ok |-> built.ok])
    /\ handles' = IF built.opened THEN Append(handles, cfg.dataDir) ELSE handles
    /\ lookups' = built.lookups

\* A tool handler calls this.getBackend().
GetBackend ==
    LET errors == validateConfig(config, disk)
        built  == IF config.mode = "local"
                  THEN NewLocalBackend(config, disk, lookups)
                  ELSE NewWebAPIBackend(config, lookups)
    IN
      \/ /\ ~NeedsBackend(serverBackend)
         /\ call' = [op |-> "getBackend", validated |-> FALSE, errors |-> <<>>]
         /\ result' = [kind |-> "ok", backend |-> serverBackend]
         /\ UNCHANGED <<serverBackend, instances, handles, lookups>>
      \/ /\ NeedsBackend(serverBackend)
         /\ errors # <<>>
         /\ call' = [op |-> "getBackend", validated |-> TRUE, errors |-> errors]
         /\ result' = [kind |-> "error", message |-> "Configuration errors"]
         /\ UNCHANGED <<serverBackend, instances, handles, lookups>>
      \/ /\ NeedsBackend(serverBackend)
         /\ errors = <<>>
         /\ Len(instances) < MaxConstructions
         /\ call' = [op |-> "getBackend", validated |-> TRUE, errors |-> errors]
         /\ Construct(config, "server", built)
         /\ serverBackend' = IF built.ok THEN Len(instances) + 1 ELSE serverBackend
         /\ result' = IF built.ok
                      THEN [kind |-> "ok", backend |-> Len(instances) + 1]
                      ELSE [kind |-> "error", message |-> built.message]
    /\ requests' = <<>>
    /\ UNCHANGED <<libVars, cacheVars, config, globalConfig, disk, walk>>

SetConfig ==
    /\ \E c \in SetConfigs : globalConfig' = c
    /\ call' = NoCall
    /\ result' = NoCall
    /\ requests' = <<>>
    /\ UNCHANGED <<libVars, cacheVars, config, disk, serverBackend, instances,
                   handles, lookups, walk>>

SwitchMode ==
    /\ \E mode \in ZoteroModes : globalConfig' = [getConfig EXCEPT !.mode = mode]
    /\ call' = NoCall
    /\ result' = NoCall
    /\ requests' = <<>>
    /\ UNCHANGED <<libVars, cacheVars, config, disk, serverBackend, instances,
                   handles, lookups, walk>>

\* Code other than the server constructs a LocalBackend of its own.
ConstructLocalBackend ==
    /\ Len(instances) < MaxConstructions
    /\ \E dataDir \in DataDirs :
          LET cfg == [mode |-> "local", apiKey |-> "", userId |-> "",
                      groupId |-> "", dataDir |-> dataDir]
              built == NewLocalBackend(cfg, disk, lookups)
          IN /\ Construct(cfg, "direct", built)
             /\ call' = [op |-> "new LocalBackend", dataDir |-> dataDir]
             /\ result' = IF built.ok
                          THEN [kind |-> "ok", backend |-> Len(instances) + 1]
                          ELSE [kind |-> "error", message |-> built.message]
    /\ requests' = <<>>
    /\ UNCHANGED <<libVars, cacheVars, config, globalConfig, disk, serverBackend,
                   walk>>

\* A LocalBackend decodes a row it read from its own store.
Decode ==
    /\ \E i \in 1..Len(instances) :
          /\ instances[i].ok
          /\ instances[i].variant = "local"
          /\ \E id \in DOMAIN StoreTables(instances[i].dataDir).itemTypes
                       \cap DOMAIN StoreTables(instances[i].dataDir).creatorTypes :
                LET row == [key |-> "R1", itemTypeID |-> id, creatorTypeID |-> id]
                IN /\ call' = [op |-> "decode", instance |-> i, row |-> row]
                   /\ result' = [kind |-> "ok", item |-> rowToItem(row, lookups),
                                 creator |-> loadItemCreators(row, lookups)]
    /\ requests' = <<>>
    /\ UNCHANGED <<libVars, cacheVars, serverVars, walk>>

\* The environment: the data directory d1 appears, vanishes, is locked or
\* released by the Zotero application.
DiskChange ==
    /\ \E st \in DirStates \ {disk["d1"]} : disk' = [disk EXCEPT !["d1"] = st]
    /\ call' = NoCall
    /\ result' = NoCall
    /\ requests' = <<>>
    /\ UNCHANGED <<libVars, cacheVars, config, globalConfig, serverBackend,
                   instances, handles, lookups, walk>>

NextServer ==
    \/ GetBackend
    \/ SetConfig
    \/ SwitchMode
    \/ ConstructLocalBackend
    \/ Decode
    \/ DiskChange

SpecServer == InitServer /\ [][NextServer]_vars

-----------------------------------------------------------------------------
(* The sub-collection walk of getCollectionItems(c, recursive = true), one *)
(* step per loop iteration or return, over every collection table whose    *)
(* parent links form a forest.  `walk.stack` holds the activations of      *)
(* getSubcollections: the key each was called with, the rows its query     *)
(* read and the row its loop is at.                                        *)

\* Following the parent links from k at most n times reaches a top-level
\* collection.
RECURSIVE ReachesTop(_, _, _)
ReachesTop(table, k, n) ==
    IF table[k] = "" THEN TRUE
    ELSE IF n = 0 THEN FALSE
    ELSE ReachesTop(table, table[k], n - 1)

\* The collection tables over the keys of the library without cycles.
CollectionTables ==
    {table \in [CollKeys -> CollKeys \cup {""}] :
        \A k \in CollKeys : ReachesTop(table, k, Cardinality(CollKeys))}

\* The query of getSubcollections as it would be if it selected every
\* collection below the parent and not its immediate sub-collections only.
SubcollectionRowsBelow(parentKey) ==
    RowsOf({c \in DOMAIN collections :
               \/ collections[c] = parentKey
               \/ /\ collections[c] # ""
                  /\ collections[collections[c]] = parentKey})

\* The rows of the query of getSubcollections: the collections whose parent
\* is parentKey.
SubcollectionRows(parentKey) ==
    RowsOf({c \in DOMAIN collections : collections[c] = parentKey})

\* getSubcollections(parentKey) is entered: its query has run.
Activation(parentKey) ==
    [parentKey |-> parentKey, subs |-> SubcollectionRows(parentKey), at |-> 1]

InitWalk ==
    /\ items = BaseItems
    /\ deletedItems = {}
    /\ itemTags = BaseTags
    /\ collectionItems = BaseCollectionItems
    /\ collections \in CollectionTables
    /\ deletedCollections = {}
    /\ InitCalls
    /\ InitCacheIdle
    /\ InitServerIdle
    /\ walk = NoWalk

\* getCollectionItems(c, true) is called: allKeys = [collectionKey] and
\* getSubcollections(collectionKey) is entered.
BeginWalk ==
    /\ call.op = "none"
    /\ \E c \in CollKeys :
          /\ call' = [op |-> "getCollectionItems", backend |-> "local", key |-> c,
                      recursive |-> TRUE, filters |-> NoFilters]
          /\ walk' = [state |-> "walking", allKeys |-> <<c>>,
                      stack |-> <<Activation(c)>>, maxDepth |-> 1]
    /\ result' = [kind |-> "pending"]
    /\ requests' = <<>>
    /\ UNCHANGED <<libVars, cacheVars, serverVars>>

\* One iteration of the loop of the innermost activation (push the key,
\* enter getSubcollections for it), or its return once the loop is over.
WalkStep ==
    /\ walk.state = "walking"
    /\ walk.stack # <<>>
    /\ LET depth == Len(walk.stack)
           top == walk.stack[depth]
       IN \/ /\ top.at <= Len(top.subs)
             /\ walk' = [walk EXCEPT
                           !.allKeys = Append(@, top.subs[top.at]),
                           !.stack = Append([@ EXCEPT ![depth].at = top.at + 1],
                                            Activation(top.subs[top.at])),
                           !.maxDepth = IF depth + 1 > @ THEN depth + 1 ELSE @]
          \/ /\ top.at > Len(top.subs)
             /\ walk' = [walk EXCEPT !.stack = SubSeq(@, 1, depth - 1)]
    /\ UNCHANGED <<libVars, callVars, cacheVars, serverVars>>

\* The walk has returned: the item query is issued (with collectionKey only)
\* and the handler returns.
EndWalk ==
    /\ walk.state = "walking"
    /\ walk.stack = <<>>
    /\ walk' = [walk EXCEPT !.state = "done"]
    /\ result' = LocalSearchItems(<<>>, [call.filters EXCEPT !.collectionKey = call.key])
    /\ UNCHANGED <<libVars, call, requests, cacheVars, serverVars>>

ReturnWalk ==
    /\ walk.state = "done"
    /\ walk' = NoWalk
    /\ call' = NoCall /\ result' = NoCall /\ requests' = <<>>
    /\ UNCHANGED <<libVars, cacheVars, serverVars>>

NextWalk ==
    \/ BeginWalk
    \/ WalkStep
    \/ EndWalk
    \/ ReturnWalk

\* The handler runs to completion once called: no step of it waits on
\* anything.
SpecWalk ==
    InitWalk /\ [][NextWalk]_vars /\ WF_vars(WalkStep) /\ WF_vars(EndWalk)

-----------------------------------------------------------------------------
(* The Local backend over stores with soft-deleted items and collections *)

MaxDeletedCollections == 1  \* at most this many rows in deletedCollections

InitTrash ==
    /\ items = BaseItems
    /\ deletedItems \in {S \in SUBSET {"R1", "R2", "A1", "N1", "AN1"} :
                            Cardinality(S) <= MaxTrashed}
    /\ itemTags = BaseTags
    /\ collectionItems = BaseCollectionItems
    /\ collections = BaseCollections
    /\ deletedCollections \in {S \in SUBSET CollKeys :
                                  Cardinality(S) <= MaxDeletedCollections}
    /\ InitCalls
    /\ InitCacheIdle
    /\ InitServerIdle
    /\ walk = NoWalk

CallLocalGetCollections ==
    /\ call.op = "none"
    /\ call' = [op |-> "getCollections", backend |-> "local"]
    /\ result' = [kind |-> "ok", collections |-> LocalGetCollections]
    /\ requests' = <<>>
    /\ UNCHANGED <<libVars, cacheVars, serverVars, walk>>

CallLocalGetCollection ==
    /\ call.op = "none"
    /\ \E key \in CallCollKeys :
          /\ call' = [op |-> "getCollection", backend |-> "local", key |-> key]
          /\ result' = LocalGetCollection(key)
    /\ requests' = <<>>
    /\ UNCHANGED <<libVars, cacheVars, serverVars, walk>>

CallLocalGetRelatedItems ==
    /\ call.op = "none"
    /\ \E key \in CallKeys :
          /\ call' = [op |-> "getRelatedItems", backend |-> "local", key |-> key]
          /\ result' = [kind |-> "ok", items |-> LocalGetRelatedItems(key)]
    /\ requests' = <<>>
    /\ UNCHANGED <<libVars, cacheVars, serverVars, walk>>

NextTrash ==
    \/ CallLocalSearchItems
    \/ CallLocalGetCollectionItems
    \/ CallLocalGetItem
    \/ CallLocalChildren
    \/ CallLocalGetRecentItems
    \/ CallLocalSearchFullText
    \/ CallLocalGetRelatedItems
    \/ CallLocalGetCollections
    \/ CallLocalGetCollection
    \/ Return

SpecTrash == InitTrash /\ [][NextTrash]_vars

-----------------------------------------------------------------------------
(* Claims *)

IsCall(op, backend) == call.op = op /\ call.backend = backend

IsList(backend) ==
    /\ call.op \in {"searchItems", "getCollectionItems"}
    /\ call.backend = backend
    /\ result.kind = "ok"

\* The query and filters of the call as searchItems receives them.
CallQuery == IF call.op = "searchItems" THEN call.query ELSE <<>>
CallFilters ==
    IF call.op = "searchItems" THEN call.filters
    ELSE [call.filters EXCEPT !.collectionKey = call.key]

\* A live library item: not in the trash, not a child object.
LiveLibraryItem(k) ==
    k \in DOMAIN items /\ k \notin deletedItems /\ items[k].itemType \notin ChildTypes

\* k satisfies the query and the filters of the call, pagination aside (the
\* text match being the Local backend's own).
Satisfies(k, query, filters) ==
    /\ LiveLibraryItem(k)
    /\ (query # <<>> => LocalTextMatch(k, query))
    /\ \A n \in 1..Len(filters.tags) : filters.tags[n] \in itemTags[k]
    /\ (filters.itemType # <<>> =>
           items[k].itemType \in {filters.itemType[n] : n \in 1..Len(filters.itemType)})
    /\ (filters.collectionKey # "" => filters.collectionKey \in collectionItems[k])

\* C1: every result of the Local backend's searchItems and getCollectionItems
\* has nextStart = filters.start + items.length and hasMore = (nextStart <
\* totalResults), totalResults being the number of items that satisfy the
\* query and filters whatever the page.
C1_LocalPagination ==
    IsList("local") =>
        /\ result.nextStart = call.filters.start + Len(result.items)
        /\ result.hasMore = (result.nextStart < result.totalResults)
        /\ result.totalResults =
               Cardinality({k \in DOMAIN items : Satisfies(k, CallQuery, CallFilters)})

\* A Local page that starts past 0, holds an item and is not the last one.
C1_Witness ==
    /\ IsList("local")
    /\ call.filters.start > 0
    /\ Len(result.items) > 0
    /\ result.hasMore

\* C2: every result of the Remote backend's searchItems and getCollectionItems
\* has nextStart = start + items.length and hasMore = (nextStart <
\* totalResults), also for a start above 0.
C2_RemotePagination ==
    IsList("remote") =>
        /\ result.nextStart = call.filters.start + Len(result.items)
        /\ result.hasMore = (result.nextStart < result.totalResults)

TagSet(filters) == {filters.tags[n] : n \in 1..Len(filters.tags)}

\* C3: a Local searchItems with filters.tags = T returns only items that
\* carry every tag of T; totalResults is the number of live library items
\* carrying every tag of T; and a one-tag T that no item carries yields no
\* item and totalResults = 0.
C3_LocalTagsAnd ==
    (IsCall("searchItems", "local") /\ Len(call.filters.tags) > 0) =>
        LET T == TagSet(call.filters)
            tagsOnly == /\ call.query = <<>>
                        /\ call.filters = [NoFilters EXCEPT !.tags = call.filters.tags]
        IN /\ \A n \in 1..Len(result.items) : T \subseteq result.items[n].tags
           /\ tagsOnly =>
                  result.totalResults =
                      Cardinality({k \in DOMAIN items :
                                      LiveLibraryItem(k) /\ T \subseteq itemTags[k]})
           /\ (Cardinality(T) = 1 /\ (\A k \in DOMAIN items : T \cap itemTags[k] = {}))
                  => result.items = <<>> /\ result.totalResults = 0

\* A Local search for two tags that returns an item and leaves out a live
\* library item carrying only one of the two.
C3_Witness ==
    /\ IsCall("searchItems", "local")
    /\ Len(call.filters.tags) = 2
    /\ Len(result.items) > 0
    /\ \E k \in DOMAIN items :
          /\ LiveLibraryItem(k)
          /\ Cardinality(TagSet(call.filters) \cap itemTags[k]) = 1
          /\ k \notin Keys(result.items)

\* C4: a Remote searchItems with two or more tags in filters.tags asks the
\* service for the items carrying all of them: the request does not join
\* them as alternatives, and no returned item lacks one of the tags.
C4_RemoteTagsAnd ==
    (IsCall("searchItems", "remote") /\ Len(call.filters.tags) >= 2
        /\ result.kind = "ok") =>
        /\ requests[1].params.tag.sep # " || "
        /\ \A n \in 1..Len(result.items) :
              TagSet(call.filters) \subseteq result.items[n].tags

\* C5: no searchItems or getCollectionItems result, of either backend, holds
\* an attachment, a note or an annotation.
C5_NoChildTypes ==
    \A b \in {"local", "remote"} :
        IsList(b) =>
            \A n \in 1..Len(result.items) : result.items[n].itemType \notin ChildTypes

\* The collection c and its transitive sub-collections.
RECURSIVE Subtree(_)
Subtree(c) ==
    {c} \cup UNION {Subtree(d) : d \in {e \in DOMAIN collections : collections[e] = c}}

\* The result is the whole answer: first page, nothing left.
WholeAnswer(r, filters) == r.kind = "ok" /\ filters.start = 0 /\ ~r.hasMore

\* C7: Local getCollectionItems(c, recursive = true) returns, over all pages,
\* every live library item that is in c or in a transitive sub-collection
\* of c.
C7_LocalRecursive ==
    (IsCall("getCollectionItems", "local") /\ call.recursive
        /\ WholeAnswer(result, call.filters)) =>
        {k \in DOMAIN items :
            LiveLibraryItem(k) /\ collectionItems[k] \cap Subtree(call.key) # {}}
          \subseteq Keys(result.items)

\* The same call with the other value of `recursive`.
OtherCollectionItems ==
    IF call.backend = "local"
    THEN LocalGetCollectionItems(call.key, ~call.recursive, call.filters)
    ELSE RemoteGetCollectionItems(call.key, ~call.recursive, call.filters)

\* C8: in both backends getCollectionItems(c, true) holds every item of
\* getCollectionItems(c, false) under the same filters, and the two results
\* have the same items and the same totalResults when c has no
\* sub-collection.
C8_RecursiveSuperset ==
    (call.op = "getCollectionItems" /\ call.recursive /\ result.kind = "ok") =>
        LET flat == OtherCollectionItems
        IN /\ (WholeAnswer(result, call.filters) /\ WholeAnswer(flat, call.filters))
                  => Keys(flat.items) \subseteq Keys(result.items)
           /\ Subtree(call.key) = {call.key} =>
                  /\ result.totalResults = flat.totalResults
                  /\ Keys(result.items) = Keys(flat.items)

\* C6: getItem on the key of an item in the trash returns not-found, with or
\* without children, in the Local and in the Remote backend alike.
C6_TrashedNotFound ==
    (/\ call.op = "getItem"
     /\ call.key \in deletedItems
     /\ call.backend = "remote" => call.status \in {200, 404}) =>
        result.kind = "null"

\* C9: every annotation getItemAnnotations(k) returns, in either backend, is
\* owned by an attachment that is a child of k, and its parentItem is that
\* attachment's key, never k.
C9_AnnotationsOfOwnAttachments ==
    (call.op = "getItemAnnotations" /\ result.kind = "ok") =>
        \A n \in 1..Len(result.items) :
            LET a == result.items[n]
            IN /\ a.itemType = "annotation"
               /\ a.parentItem # call.key
               /\ a.parentItem \in DOMAIN items
               /\ items[a.parentItem].itemType = "attachment"
               /\ items[a.parentItem].parentItem = call.key
               /\ items[a.key].parentItem = a.parentItem

\* getItemAnnotations returned an annotation while the library holds a live
\* annotation on the PDF of another item.
C9_Witness ==
    /\ call.op = "getItemAnnotations"
    /\ result.kind = "ok"
    /\ Len(result.items) > 0
    /\ \E k \in DOMAIN items :
          /\ items[k].itemType = "annotation"
          /\ k \notin deletedItems
          /\ items[k].parentItem \notin deletedItems
          /\ items[items[k].parentItem].parentItem # call.key

\* C10 with the expiry instant included: set(k, v) then get(k) with no time
\* elapsed returns v; and a get(k) issued when the TTL has elapsed since the
\* last set(k, ...), the expiry instant included, returns absent and leaves k
\* out of the store.
C10_ExpiryInclusive ==
    cacheCall.op = "get" =>
        /\ cacheCall.justSet # Absent => got = cacheCall.justSet
        /\ (setAt[cacheCall.key] # NoTime /\ now >= setAt[cacheCall.key] + ttl) =>
               got = Absent /\ cacheCall.key \notin DOMAIN store

\* C10 with the expiry instant excluded: set(k, v) then get(k) with no time
\* elapsed returns v; a get(k) issued later than the expiry instant (last
\* set + TTL) returns absent and leaves k out of the store; and a get(k) of
\* an entry the store holds, issued no later than the expiry instant, returns
\* the held value.
C10_ExpiryStrict ==
    cacheCall.op = "get" =>
        /\ cacheCall.justSet # Absent => got = cacheCall.justSet
        /\ (setAt[cacheCall.key] # NoTime /\ now > setAt[cacheCall.key] + ttl) =>
               got = Absent /\ cacheCall.key \notin DOMAIN store
        /\ (cacheCall.held # Absent /\ now <= setAt[cacheCall.key] + ttl) =>
               got = cacheCall.held

\* A get(k) issued past the expiry instant of an entry the store still held:
\* it returned absent and removed the entry.
C10_Witness ==
    /\ cacheCall.op = "get"
    /\ cacheCall.held # Absent
    /\ now > setAt[cacheCall.key] + ttl
    /\ got = Absent
    /\ cacheCall.key \notin DOMAIN store

\* C11: the TTL never changes after construction; every set(k, v) leaves k
\* with the expiry (time of that set + TTL); and when the last set call was
\* set(k, v), a get(k) of the entry the store holds, issued no later than
\* (time of that set + TTL), returns v, whenever the earlier sets of k were
\* made.
C11_SetRefreshesExpiry ==
    [][/\ ttl' = ttl
       /\ cacheCall'.op = "set" =>
              store'[cacheCall'.key] = [value |-> cacheCall'.value, expires |-> now + ttl]
       /\ (/\ cacheCall'.op = "get"
           /\ cacheCall'.key = setLog.key
           /\ cacheCall'.key \in DOMAIN store
           /\ now <= setAt[cacheCall'.key] + ttl) =>
              got' = setLog.value]_vars

\* A get(k) after two sets of k at different times, issued past the first
\* set's expiry instant and within the second's: it returned the second value.
C11_Witness ==
    /\ cacheCall.op = "get"
    /\ cacheCall.key = setLog.key
    /\ setLog.prevAt # NoTime
    /\ setLog.prevAt < setAt[cacheCall.key]
    /\ now > setLog.prevAt + ttl
    /\ now <= setAt[cacheCall.key] + ttl
    /\ got # Absent
    /\ got = setLog.value

\* C12: cleanup() removes exactly the entries whose expiry lies before the
\* time of the call and leaves the others as they were, so that no expired
\* entry remains; get(k) and has(k) of an entry that has not expired leave the
\* store as it was.
C12_CleanupFrame ==
    [][/\ cacheCall'.op = "cleanup" =>
              /\ DOMAIN store' = {k \in DOMAIN store : store[k].expires >= now}
              /\ \A k \in DOMAIN store' : store'[k] = store[k]
              /\ \A k \in DOMAIN store' : store'[k].expires >= now'
       /\ (/\ cacheCall'.op \in {"get", "has"}
           /\ cacheCall'.key \in DOMAIN store
           /\ store[cacheCall'.key].expires >= now) =>
              store' = store]_vars

\* A cleanup() that removed an expired entry and kept one that had not
\* expired.
C12_Witness ==
    /\ cacheCall.op = "cleanup"
    /\ cacheCall.removed # {}
    /\ DOMAIN store # {}
    /\ \A k \in DOMAIN store : store[k].expires >= now

\* C13: Local getBibliography returns the same fixed message for every key
\* list (the empty list and unknown keys included) and every style, in every
\* library, and never raises.
C13_BibliographyUnsupported ==
    (call.op = "getBibliography" /\ call.backend = "local") =>
        /\ result.kind = "ok"
        /\ result.text =
               "Bibliography generation requires Web API mode or citeproc-js integration."

\* Local getBibliography was called with a key list holding an unknown key,
\* or with none, and answered.
C13_Witness ==
    /\ call.op = "getBibliography"
    /\ call.backend = "local"
    /\ \/ call.keys = <<>>
       \/ \E n \in 1..Len(call.keys) : call.keys[n] \notin DOMAIN items
    /\ result.kind = "ok"

\* C14: Remote getItem(key) and getCollection(key) return not-found exactly
\* when the service answers the request for the entity with status 404; any
\* other answer that is not ok reaches the caller as an error carrying its
\* status.
C14_NotFoundOnly404 ==
    (call.op \in {"getItem", "getCollection"} /\ call.backend = "remote") =>
        /\ result.kind = "null" <=> call.status = 404
        /\ call.status \notin {200, 404} =>
               result.kind = "error" /\ result.status = call.status

\* C15: no searchItems or getCollectionItems result of either backend holds
\* more items than config.maxLimit, and the limit the Remote backend sends is
\* at most config.maxLimit.
C15_LimitClamped ==
    \A b \in {"local", "remote"} :
        IsList(b) =>
            /\ Len(result.items) <= ConfigMaxLimit
            /\ b = "remote" => requests[1].params.limit <= ConfigMaxLimit

\* C16: in both backends every item searchItems returns for a call with
\* filters.sinceVersion = v has a version above v, with or without a
\* collectionKey.
C16_SinceVersionFloor ==
    (call.op = "searchItems" /\ result.kind = "ok"
        /\ call.filters.sinceVersion # NoVersion) =>
        \A n \in 1..Len(result.items) :
            result.items[n].version > call.filters.sinceVersion

\* The date lies in the trailing window of the call, the second of the cutoff
\* left open either way.
InWindow(date) ==
    (date \div MsPerSecond) > (Cutoff(now, call.days) \div MsPerSecond)
BeforeWindow(date) ==
    (date \div MsPerSecond) < (Cutoff(now, call.days) \div MsPerSecond)

\* The live library items that getRecentItems has to consider.
Eligible ==
    {k \in DOMAIN items :
        /\ LiveLibraryItem(k)
        /\ InWindow(items[k].dateAdded) \/ InWindow(items[k].dateModified)}

\* C17: in both backends getRecentItems(days, limit) returns at most limit
\* live library items, newest first, each with dateAdded or dateModified in
\* the trailing window; an item with dateAdded in the window is eligible
\* whatever its dateModified; and no eligible item is left out while fewer
\* than limit items are returned.
C17_RecentItems ==
    (call.op = "getRecentItems" /\ result.kind = "ok") =>
        /\ Len(result.items) <= call.limit
        /\ \A n \in 1..Len(result.items) :
              LET k == result.items[n].key
              IN /\ LiveLibraryItem(k)
                 /\ ~(BeforeWindow(items[k].dateAdded)
                         /\ BeforeWindow(items[k].dateModified))
        /\ \A n \in 1..(Len(result.items) - 1) :
              items[result.items[n].key].dateModified
                  >= items[result.items[n + 1].key].dateModified
        /\ Len(result.items) < call.limit => Eligible \subseteq Keys(result.items)

\* C18: getRecentItems(days = 0) returns every live library item added on the
\* day of the call before the instant of the call, as long as fewer than
\* limit items are returned.
C18_TodayIncluded ==
    (call.op = "getRecentItems" /\ call.days = 0 /\ result.kind = "ok"
        /\ Len(result.items) < call.limit) =>
        \A k \in DOMAIN items :
            (/\ LiveLibraryItem(k)
             /\ items[k].dateAdded \div DayMs = now \div DayMs
             /\ items[k].dateAdded < now) => k \in Keys(result.items)

\* The number of live items that carry the tag.
NumCarriers(t) ==
    Cardinality({k \in DOMAIN items : k \notin deletedItems /\ t \in itemTags[k]})

\* C19: in both backends getTags returns one entry per tag, its count the
\* number of distinct live items carrying the tag, the entries sorted by
\* count descending and, on equal counts, by name ascending.
C19_TagCounts ==
    (call.op = "getTags" /\ result.kind = "ok") =>
        /\ \A n, m \in 1..Len(result.items) :
              n # m => result.items[n].tag # result.items[m].tag
        /\ \A n \in 1..Len(result.items) :
              result.items[n].count = NumCarriers(result.items[n].tag)
        /\ \A n \in 1..(Len(result.items) - 1) :
              LET a == result.items[n]
                  b == result.items[n + 1]
              IN \/ a.count > b.count
                 \/ a.count = b.count /\ TagRank(a.tag) < TagRank(b.tag)

\* C20: in both backends searchFullText returns no key twice, and every
\* element is a top-level item that owns a live attachment whose content
\* matches the query, never a child attachment.
C20_FullTextParents ==
    (call.op = "searchFullText" /\ result.kind = "ok") =>
        /\ \A n, m \in 1..Len(result.items) :
              n # m => result.items[n].key # result.items[m].key
        /\ \A n \in 1..Len(result.items) :
              LET k == result.items[n].key
              IN /\ items[k].parentItem = NoKey
                 /\ \E a \in DOMAIN FulltextContent :
                       /\ a \notin deletedItems
                       /\ items[a].itemType = "attachment"
                       /\ Contains(FulltextContent[a], call.query)
                       /\ TopOf(a) = k

\* The required settings of the selected mode that are missing or invalid,
\* each named by the message that reports it.
MissingSettings(cfg, fs) ==
    IF cfg.mode = "web"
    THEN {m \in {ApiKeyRequired, LibraryIdRequired} :
             \/ m = ApiKeyRequired /\ cfg.apiKey = ""
             \/ m = LibraryIdRequired /\ cfg.userId = "" /\ cfg.groupId = ""}
    ELSE {m \in {DataDirUndetected, DataDirMissing, SqliteMissing} :
             \/ m = DataDirUndetected /\ cfg.dataDir = ""
             \/ /\ m = DataDirMissing
                /\ cfg.dataDir # ""
                /\ ~fs[cfg.dataDir].dir
             \/ /\ m = SqliteMissing
                /\ cfg.dataDir # ""
                /\ fs[cfg.dataDir].dir
                /\ ~fs[cfg.dataDir].sqlite}

\* The list getBackend got from validateConfig names every missing or
\* invalid setting once.
ErrorsAreTheMissingSettings ==
    (call.op = "getBackend" /\ call.validated) =>
        /\ {call.errors[n] : n \in 1..Len(call.errors)} = MissingSettings(config, disk)
        /\ Len(call.errors) = Cardinality(MissingSettings(config, disk))
        /\ (call.errors # <<>>) =>
               result.kind = "error" /\ serverBackend = NoBackend

\* A getBackend call that got a non-empty list calls no constructor.
NoConstructionOnErrors ==
    (call'.op = "getBackend" /\ call'.validated /\ call'.errors # <<>>) =>
        instances' = instances /\ handles' = handles /\ serverBackend' = NoBackend

\* C21: validateConfig reports all the missing or invalid required settings
\* of the selected mode together in one list (in web mode a missing API key
\* and a missing user/group id both appear), the list is empty exactly when
\* the configuration is valid, and getBackend constructs no backend while
\* the list is non-empty.
C21_AllErrorsTogether ==
    []ErrorsAreTheMissingSettings /\ [][NoConstructionOnErrors]_vars

\* A getBackend call in web mode that was refused with both errors.
C21_Witness ==
    /\ call.op = "getBackend"
    /\ call.validated
    /\ call.errors = <<ApiKeyRequired, LibraryIdRequired>>
    /\ result.kind = "error"
    /\ instances = <<>>

\* The constructor calls the server made that returned.
ServerBuilt == {i \in 1..Len(instances) : instances[i].by = "server" /\ instances[i].ok}

\* Once the slot holds a backend it holds that backend for good, and the
\* instance is not altered.
BackendKept ==
    serverBackend # NoBackend =>
        /\ serverBackend' = serverBackend
        /\ instances'[serverBackend] = instances[serverBackend]

\* C25: once getBackend has returned a backend, every later getBackend call
\* returns the same instance of the same variant, whatever later happens to
\* the configuration (switchMode, setConfig); the server constructs at most
\* one backend successfully.
C25_SingleBackend ==
    /\ [][BackendKept]_vars
    /\ []((call.op = "getBackend" /\ result.kind = "ok") =>
              result.backend = serverBackend /\ serverBackend \in ServerBuilt)
    /\ [](Cardinality(ServerBuilt) <= 1)

\* getBackend returned the backend it held, after switchMode had set the
\* global configuration to the other mode.
C25_Witness ==
    /\ call.op = "getBackend"
    /\ ~call.validated
    /\ result.kind = "ok"
    /\ globalConfig # NoConfig
    /\ globalConfig.mode # instances[serverBackend].variant
    /\ globalConfig.mode # config.mode

\* C26: two LocalBackend instances are independent: constructing a second
\* one over a store whose id tables differ never changes the itemType or the
\* creator role an already constructed instance decodes; each instance
\* decodes through the tables of its own store, as loaded at its
\* construction.
C26_InstancesIndependent ==
    call.op = "decode" =>
        LET own == StoreTables(instances[call.instance].dataDir)
        IN /\ result.item.itemType = own.itemTypes[call.row.itemTypeID]
           /\ result.creator.creatorType = own.creatorTypes[call.row.creatorTypeID]

\* A constructor call was made in this step and it threw.
ConstructionFailed ==
    /\ Len(instances') = Len(instances) + 1
    /\ ~instances'[Len(instances')].ok

\* After a constructor call that threw, nothing of it is left.
NothingLeftOfFailure ==
    ConstructionFailed =>
        /\ result'.kind = "error"
        /\ serverBackend' = serverBackend
        /\ (instances'[Len(instances')].by = "server" => serverBackend' = NoBackend)
        /\ handles' = handles
        /\ lookups' = lookups

\* C27: if constructing the Local backend fails at any step (store path
\* absent, open refused, a lookup table cannot be loaded), an error is
\* raised, the server retains no backend instance, no store handle is left
\* open and no lookup-table state of the failed construction remains.
C27_FailedConstructionLeavesNothing == [][NothingLeftOfFailure]_vars

\* C29: the Local backend's searchItems with a non-empty query returns an
\* item only if the query is a substring of its title, of its abstract, or
\* of the first or last name of one of its creators; an item in which the
\* query occurs only in another field (url, DOI, extra) is not returned.
C29_QueryFields ==
    (IsCall("searchItems", "local") /\ call.query # <<>> /\ result.kind = "ok") =>
        \A n \in 1..Len(result.items) :
            LET k == result.items[n].key
            IN \/ Contains(items[k].title, call.query)
               \/ Contains(items[k].abstractNote, call.query)
               \/ Contains(items[k].firstName, call.query)
               \/ Contains(items[k].lastName, call.query)

PdfAttachmentsOf(key) ==
    {a \in DOMAIN items :
        /\ items[a].itemType = "attachment"
        /\ items[a].parentItem = key
        /\ items[a].contentType = "application/pdf"
        /\ a \notin deletedItems}

\* C24: in the Local backend's getItemFullText the PDF extractor is invoked
\* for an attachment only when no pre-indexed text is available for it;
\* whenever indexed content was found the extractor is not called and the
\* result holds indexed text only; the result is null exactly when no
\* source (indexed content, or a PDF on disk the extractor can read) yields
\* text.
C24_IndexedFirst ==
    call.op = "getItemFullText" =>
        LET found == call.key \in DOMAIN items /\ call.key \notin deletedItems
            pdfs == PdfAttachmentsOf(call.key)
            sources == {a \in pdfs \cup {call.key} : a \in DOMAIN FulltextContent}
                           \cup (pdfs \cap call.parsed)
        IN /\ \A n \in 1..Len(call.extracted) :
                  call.extracted[n] \notin DOMAIN FulltextContent
           /\ (result.kind = "ok"
                 /\ \E n \in 1..Len(result.texts) : result.texts[n].source = "indexed")
              => /\ call.extracted = <<>>
                 /\ \A n \in 1..Len(result.texts) : result.texts[n].source = "indexed"
           /\ result.kind = "null" <=> (~found \/ sources = {})

\* C30: in each backend the children getItem(k, includeChildren = true)
\* populates agree with the dedicated operations on the same store state:
\* attachments with getItemAttachments(k), notes with getItemNotes(k) and
\* annotations with getItemAnnotations(k), the annotations reached through
\* k's PDF attachments.
C30_ChildrenAgree ==
    (call.op = "getItem" /\ call.includeChildren /\ result.kind = "ok") =>
        IF call.backend = "local"
        THEN /\ result.item.attachments = LocalGetItemAttachments(call.key)
             /\ result.item.notes = LocalGetItemNotes(call.key)
             /\ result.item.annotations = LocalGetItemAnnotations(call.key)
        ELSE /\ RemoteGetItemAttachments(call.key) =
                    [kind |-> "ok", items |-> result.item.attachments]
             /\ RemoteGetItemNotes(call.key) =
                    [kind |-> "ok", items |-> result.item.notes]
             /\ RemoteGetItemAnnotations(call.key) =
                    [kind |-> "ok", items |-> result.item.annotations]

\* The number of levels of the subtree rooted at c (1 for a collection
\* without sub-collections).
RECURSIVE Levels(_)
Levels(c) ==
    LET below == {d \in DOMAIN collections : collections[d] = c}
    IN IF below = {} THEN 1
       ELSE 1 + (CHOOSE n \in {Levels(d) : d \in below} :
                     \A m \in {Levels(d) : d \in below} : n >= m)

\* c is a proper ancestor of d.
RECURSIVE IsBelow(_, _)
IsBelow(d, c) ==
    /\ collections[d] # ""
    /\ collections[d] = c \/ IsBelow(collections[d], c)

\* A finished walk holds the start key and every transitive sub-collection
\* once, is what getSubcollections computes, and never nested deeper than
\* the subtree has levels (the activation for c itself counted, as the
\* level of c is).
WalkCollectsSubtree ==
    walk.state = "done" =>
        /\ {walk.allKeys[n] : n \in 1..Len(walk.allKeys)} =
               {call.key} \cup {d \in DOMAIN collections : IsBelow(d, call.key)}
        /\ \A n, m \in 1..Len(walk.allKeys) :
               n # m => walk.allKeys[n] # walk.allKeys[m]
        /\ walk.allKeys = <<call.key>> \o getSubcollections(call.key)
        /\ walk.maxDepth <= Levels(call.key)

WalkDepthBounded ==
    walk.state = "walking" => Len(walk.stack) <= Levels(call.key)

\* C28: for every finite collection table whose parent links form a tree,
\* the sub-collection walk of the Local backend's getCollectionItems(c,
\* recursive = true) terminates, collects the key of every transitive
\* sub-collection of c exactly once, and its nesting depth never exceeds the
\* depth of the subtree rooted at c.
C28_WalkTerminates ==
    /\ []WalkCollectsSubtree
    /\ []WalkDepthBounded
    /\ (walk.state = "walking") ~> (walk.state = "done")

\* A finished walk over a subtree of four collections, three levels deep
\* with a branch.
C28_Witness ==
    /\ walk.state = "done"
    /\ Len(walk.allKeys) = Cardinality(CollKeys)
    /\ walk.maxDepth = Cardinality(CollKeys) - 1
    /\ Levels(call.key) = walk.maxDepth

\* The items a result holds: the elements of a list, or the single item
\* with the children it was populated with.
ReturnedItems ==
    IF result.kind # "ok" THEN {}
    ELSE IF call.op = "getItem"
    THEN {result.item} \cup
         (IF call.includeChildren
          THEN {result.item.attachments[n] : n \in 1..Len(result.item.attachments)}
               \cup {result.item.notes[n] : n \in 1..Len(result.item.notes)}
               \cup {result.item.annotations[n] :
                        n \in 1..Len(result.item.annotations)}
          ELSE {})
    ELSE IF call.op \in {"getCollections", "getCollection"} THEN {}
    ELSE {result.items[n] : n \in 1..Len(result.items)}

\* The collection key the call filters by ("" = none).
FilterCollection ==
    CASE call.op = "getCollectionItems" -> call.key
      [] call.op = "searchItems" -> call.filters.collectionKey
      [] OTHER -> ""

\* C22: on the Local backend no soft-deleted entity surfaces in a result: no
\* item, attachment, note or annotation listed in deletedItems is returned,
\* and no collection listed in deletedCollections is returned by
\* getCollections or getCollection, reported as a parentCollection, listed
\* in an item's collections, visited by the recursive sub-collection walk,
\* or yields items when used as a collectionKey filter.
C22_NoSoftDeleted ==
    (call.op # "none" /\ call.backend = "local") =>
        /\ \A item \in ReturnedItems : item.key \notin deletedItems
        /\ \A item \in ReturnedItems :
               "collections" \in DOMAIN item => item.collections \cap deletedCollections = {}
        /\ call.op = "getCollections" =>
               \A n \in 1..Len(result.collections) :
                   /\ result.collections[n].key \notin deletedCollections
                   /\ result.collections[n].parentCollection \notin deletedCollections
        /\ (call.op = "getCollection" /\ result.kind = "ok") =>
               /\ result.collection.key \notin deletedCollections
               /\ result.collection.parentCollection \notin deletedCollections
        /\ (call.op = "getCollectionItems" /\ call.recursive) =>
               \A c \in DOMAIN collections :
                   (\E n \in 1..Len(getSubcollections(call.key)) :
                        getSubcollections(call.key)[n] = c) => c \notin deletedCollections
        /\ FilterCollection \in deletedCollections => ReturnedItems = {}

====
